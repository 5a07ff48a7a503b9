------------------------------ MODULE MappedFile ------------------------------
(* mapped_ifile and mapped_ofile (io/mapped_files.h, .cpp): a window of a file *)
(* mapped into memory, which slides when a range outside it is asked for.      *)
(*                                                                             *)
(* A file is a record: the range mapped, [base, base + extent), the offset of  *)
(* the last request in it, and what an ofile takes for its size.  An address   *)
(* is the position in the file it is mapped to.                                *)
EXTENDS Integers

CONSTANT PageSize

(* What is assumed of the constants. *)
ASSUME PageAssumption == PageSize \in Nat \ {0}

OpenFile == [base |-> 0, offset |-> 0, extent |-> 0, size |-> 0, mapped |-> FALSE]

PageOf(position) == position - (position % PageSize)
Larger(a, b) == IF a >= b THEN a ELSE b

Covers(f, position, window) ==
    f.mapped /\ f.base <= position /\ position + window <= f.base + f.extent

(* A new mapping, at least as large as the last, from the page of the first    *)
(* byte on.  (Nothing in the repository asks for a backward one.)              *)
reposition(f, position, window) ==
    LET last == PageOf(position + window - 1)
        extent == Larger(f.extent, PageSize + last - PageOf(position))
    IN  [f EXCEPT !.base = PageOf(position), !.extent = extent,
                  !.offset = position - PageOf(position), !.mapped = TRUE]

(* Without a new mapping when the range lies in the present one. *)
seek_impl(f, position, window) ==
    LET begin == position - f.base
    IN  IF begin >= 0 /\ begin < f.extent /\ begin + window <= f.extent
        THEN [f EXCEPT !.offset = begin]
        ELSE reposition(f, position, window)

(* mapped_ofile: the size is what any request reached. *)
seek(f, position, window) ==
    [seek_impl(f, position, window) EXCEPT !.size = Larger(f.size, position + window)]

advance(f, step, window) == seek(f, f.base + f.offset + step, window)

(* mmap() fails after the old mapping is gone; the rest is as it was. *)
reposition_fails(f) == [f EXCEPT !.mapped = FALSE]
===============================================================================
