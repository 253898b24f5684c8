---------------------------- MODULE MCPmmBitmap ----------------------------
(* Instances of PmmBitmap for TLC: pages of 4 bytes, one page per bit and    *)
(* two per byte of a bitmap, usable memory from address 8.                   *)
EXTENDS PmmBitmap

Entry(addr, len, type) == [addr |-> addr, len |-> len, type |-> type]

Info(kernel_end, mb2, mb2_size, mmap) ==
    [has_mmap |-> TRUE, kernel_start |-> 8, kernel_end |-> kernel_end,
     mb2 |-> mb2, mb2_size |-> mb2_size, mmap |-> mmap]

\* Two regions, around a hole: the first behind the kernel, the second with
\* the boot information in its middle.
TwoRegions ==
    {Info(13, 56, 3, <<Entry(0, 6, 1), Entry(8, 29, 1), Entry(37, 7, 2),
                       Entry(44, 28, 1)>>)}

\* The boot situations pmm_bitmap_init tells apart.
AllBoots ==
    { \* no memory map
      [has_mmap |-> FALSE, kernel_start |-> 8, kernel_end |-> 13,
       mb2 |-> 4, mb2_size |-> 2, mmap |-> <<Entry(8, 40, 1)>>],
      \* nothing usable above LOW; too small
      Info(13, 4, 2, <<Entry(0, 8, 1), Entry(8, 40, 2)>>),
      Info(13, 4, 2, <<Entry(8, 17, 1)>>),
      \* boot information where the bitmap would go: at the start of the
      \* region, and with nothing left behind it
      Info(13, 17, 6, <<Entry(8, 40, 1)>>),
      Info(13, 30, 9, <<Entry(8, 16, 1), Entry(28, 24, 1)>>),
      \* more regions than fit; unaligned, and beyond the addressable range
      Info(9, 10, 1, <<Entry(12, 18, 1), Entry(34, 22, 1), Entry(56, 18, 1)>>),
      Info(9, 10, 9, <<Entry(0, 30, 1), Entry(50, 99, 1), Entry(200, 9, 1)>>),
      \* an entry that reaches the end of 64 bits, which is skipped
      Info(9, 10, 3, <<Entry(10, 24, 1), Entry(50, 205, 1)>>),
      \* the kernel in the middle of a region
      Info(21, 60, 2, <<Entry(4, 40, 1), Entry(54, 22, 1)>>) }

MCBoots == TwoRegions \cup AllBoots
=============================================================================
