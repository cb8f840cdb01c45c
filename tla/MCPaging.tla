------------------------------- MODULE MCPaging -------------------------------
(* Instances of Paging for TLC. *)
EXTENDS PagingInv, TLC

\* Frames 0 and 1 of RAM exist and are not handed out; 2 and 3 are, and frame 3 is no
\* frame of the swap device.
RamFrames == {{}, {0}, {1}, {0, 1}}
RamList == <<{1}, {0, 1}>>

\* Swap frame 0 is that of a page with an empty entry; the device has none, one or two
\* of the others.
SwpFrames == {{}, {0}, {1}}
SwpList == <<{0}, {1}>>

\* As MEMPHY_format lists them
RamFormat == <<{}, {0}, {1}>>
SwpFormat == <<{}, {0}>>
=============================================================================
