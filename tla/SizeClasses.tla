---------------------------- MODULE SizeClasses ----------------------------
(***************************************************************************)
(* The size classes of small objects (metadata.go) and what is computed    *)
(* from them: the class of a size, the pages and slots of a span, the      *)
(* number of the slot that an address lies in.  The tables were made for   *)
(* pages of 8 KB and the allocator has pages of 4 KB, so that they fit is  *)
(* not a matter of course.  They are constants, and so is everything       *)
(* below: TLC evaluates the assumptions at the end over all of them.       *)
(***************************************************************************)
EXTENDS Integers, Sequences

PageSize == 4096
MaxSmallSize == 32768

(* Entry i of a table of the code is entry i + 1 here. *)
class_to_size == <<
  0, 8, 16, 32, 48, 64, 80, 96, 112, 128, 144, 160, 176, 192, 208, 224,
  240, 256, 288, 320, 352, 384, 416, 448, 480, 512, 576, 640, 704, 768,
  896, 1024, 1152, 1280, 1408, 1536, 1792, 2048, 2304, 2688, 3072, 3200,
  3456, 4096, 4864, 5376, 6144, 6528, 6784, 6912, 8192, 9472, 9728, 10240,
  10880, 12288, 13568, 14336, 16384, 18432, 19072, 20480, 21760, 24576,
  27264, 28672, 32768 >>

class_to_allocnpages == <<
  0, 1, 1, 1, 1, 1, 1, 1, 1, 1, 1, 1, 1, 1, 1, 1, 1, 1, 1, 1, 1, 1, 1, 1,
  1, 1, 1, 1, 1, 1, 1, 1, 1, 1, 2, 1, 2, 1, 2, 1, 3, 2, 3, 1, 3, 2, 3, 4,
  5, 6, 1, 7, 6, 5, 4, 3, 5, 7, 2, 9, 7, 5, 8, 3, 10, 7, 4 >>

(* shift, shift2 and mul.  baseMask is set for the powers of two, for which *)
(* the code leaves out a multiplication by 1.                              *)
class_to_divmagic == <<
  <<0,0,0>>, <<3,0,1>>, <<4,0,1>>, <<5,0,1>>, <<4,9,171>>, <<6,0,1>>,
  <<4,10,205>>, <<5,9,171>>, <<4,11,293>>, <<7,0,1>>, <<4,9,57>>,
  <<5,10,205>>, <<4,12,373>>, <<6,7,43>>, <<4,13,631>>, <<5,11,293>>,
  <<4,13,547>>, <<8,0,1>>, <<5,9,57>>, <<6,9,103>>, <<5,12,373>>,
  <<7,7,43>>, <<5,10,79>>, <<6,10,147>>, <<5,11,137>>, <<9,0,1>>,
  <<6,9,57>>, <<7,6,13>>, <<6,11,187>>, <<8,5,11>>, <<7,8,37>>,
  <<10,0,1>>, <<7,9,57>>, <<8,6,13>>, <<7,11,187>>, <<9,5,11>>,
  <<8,8,37>>, <<11,0,1>>, <<8,9,57>>, <<7,10,49>>, <<10,5,11>>,
  <<7,10,41>>, <<7,9,19>>, <<12,0,1>>, <<8,9,27>>, <<8,10,49>>,
  <<11,5,11>>, <<7,13,161>>, <<7,13,155>>, <<8,9,19>>, <<13,0,1>>,
  <<8,12,111>>, <<9,9,27>>, <<11,6,13>>, <<7,14,193>>, <<12,3,3>>,
  <<8,13,155>>, <<11,8,37>>, <<14,0,1>>, <<11,8,29>>, <<7,13,55>>,
  <<12,5,7>>, <<8,14,193>>, <<13,3,3>>, <<7,14,77>>, <<12,7,19>>,
  <<15,0,1>> >>

size_to_class8 == <<
  0, 1, 2, 3, 3, 4, 4, 5, 5, 6, 6, 7, 7, 8, 8, 9, 9, 10, 10, 11, 11, 12,
  12, 13, 13, 14, 14, 15, 15, 16, 16, 17, 17, 18, 18, 18, 18, 19, 19, 19,
  19, 20, 20, 20, 20, 21, 21, 21, 21, 22, 22, 22, 22, 23, 23, 23, 23, 24,
  24, 24, 24, 25, 25, 25, 25, 26, 26, 26, 26, 26, 26, 26, 26, 27, 27, 27,
  27, 27, 27, 27, 27, 28, 28, 28, 28, 28, 28, 28, 28, 29, 29, 29, 29, 29,
  29, 29, 29, 30, 30, 30, 30, 30, 30, 30, 30, 30, 30, 30, 30, 30, 30, 30,
  30, 31, 31, 31, 31, 31, 31, 31, 31, 31, 31, 31, 31, 31, 31, 31, 31 >>

size_to_class128 == <<
  31, 32, 33, 34, 35, 36, 36, 37, 37, 38, 38, 39, 39, 39, 40, 40, 40, 41,
  42, 42, 43, 43, 43, 43, 43, 44, 44, 44, 44, 44, 44, 45, 45, 45, 45, 46,
  46, 46, 46, 46, 46, 47, 47, 47, 48, 48, 49, 50, 50, 50, 50, 50, 50, 50,
  50, 50, 50, 51, 51, 51, 51, 51, 51, 51, 51, 51, 51, 52, 52, 53, 53, 53,
  53, 54, 54, 54, 54, 54, 55, 55, 55, 55, 55, 55, 55, 55, 55, 55, 55, 56,
  56, 56, 56, 56, 56, 56, 56, 56, 56, 57, 57, 57, 57, 57, 57, 58, 58, 58,
  58, 58, 58, 58, 58, 58, 58, 58, 58, 58, 58, 58, 58, 59, 59, 59, 59, 59,
  59, 59, 59, 59, 59, 59, 59, 59, 59, 59, 59, 60, 60, 60, 60, 60, 61, 61,
  61, 61, 61, 61, 61, 61, 61, 61, 61, 62, 62, 62, 62, 62, 62, 62, 62, 62,
  62, 63, 63, 63, 63, 63, 63, 63, 63, 63, 63, 63, 63, 63, 63, 63, 63, 63,
  63, 63, 63, 63, 63, 64, 64, 64, 64, 64, 64, 64, 64, 64, 64, 64, 64, 64,
  64, 64, 64, 64, 64, 64, 64, 64, 65, 65, 65, 65, 65, 65, 65, 65, 65, 65,
  65, 66, 66, 66, 66, 66, 66, 66, 66, 66, 66, 66, 66, 66, 66, 66, 66, 66,
  66, 66, 66, 66, 66, 66, 66, 66, 66, 66, 66, 66, 66, 66, 66 >>

Classes == 1 .. Len(class_to_size) - 1
SlotSize(c) == class_to_size[c + 1]
RoundTo(x, a) == ((x + a - 1) \div a) * a

(* xSpanPool.Alloc: the class of a size.  The wrap of size - 1024 below 0  *)
(* is undone by what is added to it.                                       *)
SizeClass(size) ==
  IF size <= 1024 - 8 THEN size_to_class8[(size + 7) \div 8 + 1]
  ELSE size_to_class128[(size - 1024 + 127) \div 128 + 1]

(* xClassSpan.allocSpan and xSpan.layout: a span of class c. *)
SpanPages(c) ==
  RoundTo(RoundTo(SlotSize(c), PageSize) \div PageSize, class_to_allocnpages[c + 1])
Slots(c) == (SpanPages(c) * PageSize) \div SlotSize(c)

(* xSpan.objIndex: the slot of the byte at an offset from the span's start. *)
ObjIndex(c, offset) ==
  LET m == class_to_divmagic[c + 1]
  IN (((offset \div 2 ^ m[1]) * m[3]) \div 2 ^ m[2])

(* The class of a size is the smallest that the size fits.  Alloc asks for *)
(* the size of the class when it begins again (span_pool.go:171), and gets *)
(* the same class.                                                         *)
ASSUME BestClass ==
  /\ \A size \in 1 .. MaxSmallSize :
       LET c == SizeClass(size) IN
       c \in Classes /\ SlotSize(c - 1) < size /\ size <= SlotSize(c)
  /\ \A c \in Classes : SizeClass(SlotSize(c)) = c

(* The number of pages fits the uint8 it is computed in, and at least one  *)
(* slot fits the pages.                                                    *)
ASSUME SpanFits ==
  \A c \in Classes : SpanPages(c) < 256 /\ Slots(c) > 0

(* Division by multiplying is exact for each byte of each slot: for the    *)
(* first and the last, and it does not fall in between.  So Free of any    *)
(* address in a slot, as the second half of a pair has one (Copy2,         *)
(* From2), marks that slot and no other.                                   *)
ASSUME MagicDivides ==
  \A c \in Classes : \A i \in 0 .. Slots(c) - 1 :
    /\ ObjIndex(c, i * SlotSize(c)) = i
    /\ ObjIndex(c, (i + 1) * SlotSize(c) - 1) = i

(* The product stays below 2^31, far from where 64 bits would wrap. *)
ASSUME MagicFits ==
  \A c \in Classes :
    ((SpanPages(c) * PageSize) \div 2 ^ class_to_divmagic[c + 1][1])
      * class_to_divmagic[c + 1][3] < 2147483647
=============================================================================
