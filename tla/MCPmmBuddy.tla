----------------------------- MODULE MCPmmBuddy -----------------------------
(* Instances of PmmBuddy for TLC: pages of 4 bytes, page_info_t of 1 byte,   *)
(* usable memory from address 8.                                             *)
EXTENDS PmmBuddy

Entry(addr, len, type) == [addr |-> addr, len |-> len, type |-> type]

Info(kernel_end, mb2, mb2_size, mmap) ==
    [has_mmap |-> TRUE, kernel_start |-> 8, kernel_end |-> kernel_end,
     mb2 |-> mb2, mb2_size |-> mb2_size, mmap |-> mmap]

\* One zone, of 9 pages behind the kernel, the boot information and three
\* pages of page_info.
OneZone == {Info(13, 17, 2, <<Entry(0, 6, 1), Entry(8, 62, 1)>>)}

\* The boot situations pmm_buddy_init tells apart.
AllBoots ==
    { \* no memory map
      [has_mmap |-> FALSE, kernel_start |-> 8, kernel_end |-> 13,
       mb2 |-> 4, mb2_size |-> 2, mmap |-> << >>],
      \* nothing usable above LOW; too small; too small once laid out
      Info(13, 4, 2, <<Entry(0, 8, 1), Entry(8, 40, 2)>>),
      Info(13, 4, 2, <<Entry(8, 14, 1)>>),
      Info(13, 4, 2, <<Entry(8, 24, 1)>>),
      \* boot information below the kernel, unaligned end, reserved hole
      Info(13, 4, 2, <<Entry(0, 7, 1), Entry(7, 1, 2), Entry(8, 35, 1)>>),
      \* the kernel in the smaller of two regions; the larger starts unaligned
      Info(13, 14, 3, <<Entry(8, 14, 1), Entry(22, 3, 2), Entry(25, 31, 1)>>),
      \* the largest region reaches beyond the addressable range
      Info(9, 10, 9, <<Entry(0, 30, 1), Entry(41, 99, 1), Entry(64, 99, 1)>>),
      \* the boot information behind the kernel pushes the zone up
      Info(13, 22, 5, <<Entry(8, 48, 1)>>) }

MCBoots == OneZone \cup AllBoots

\* What the theorem on reserved memory assumes of the boot situations.
ASSUME BootsAreClear == ImagesClear
=============================================================================
