------------------------------ MODULE SeqArith ------------------------------
(***************************************************************************)
(* The wrap-around helpers of src/lib.rs, written as the code writes them. *)
(* The code never calls wrapping_add / wrapping_sub: every addition or     *)
(* subtraction of sequence numbers is spelled out as                       *)
(*   x.checked_add(n).unwrap_or_else(|| n - (u32::MAX - x))                *)
(*   x.checked_sub(y).unwrap_or_else(|| x + (u32::MAX - y))                *)
(* and a few increments use a fixed fallback value.  The width of u32 is   *)
(* the constant SeqBits here; MAX_U32_WINDOW_SIZE (16 MiB of 4 GiB) is the *)
(* constant WIN, kept well below half of the sequence space.               *)
(***************************************************************************)
EXTENDS Integers, Sequences

CONSTANTS SeqBits, WIN

M == 2 ^ SeqBits                \* size of the sequence space
MAXU == M - 1                   \* u32::MAX
Seqs == 0 .. MAXU

ASSUME SeqBits \in 2 .. 8 /\ WIN \in 1 .. (M \div 2 - 1)

(* x.checked_add(n).unwrap_or_else(|| n - (u32::MAX - x)) *)
WrapAdd(x, n) == IF x + n <= MAXU THEN x + n ELSE n - (MAXU - x)

(* x.checked_sub(y).unwrap_or_else(|| x + (u32::MAX - y)) *)
WrapSub(x, y) == IF x >= y THEN x - y ELSE x + (MAXU - y)

(* x.checked_add(1).unwrap_or(0) *)
IncOrZero(x) == IF x < MAXU THEN x + 1 ELSE 0

(* x.checked_add(1).unwrap_or(u32::MAX) *)
IncOrMax(x) == IF x < MAXU THEN x + 1 ELSE MAXU

(* x.checked_sub(1).unwrap_or(u32::MAX) *)
DecOrMax(x) == IF x > 0 THEN x - 1 ELSE MAXU

(***************************************************************************)
(* disjoint_u32_range(main, sub): the parts of the range main = [l, r)     *)
(* that the SACK block sub does not cover, as a sequence of ranges.        *)
(***************************************************************************)
DisjointU32Range(main, sub) ==
  LET sizeMain   == WrapSub(main[2], main[1])
      diffFirst  == WrapSub(sub[1], main[1])
      diffSecond == WrapSub(sub[2], main[2])
      diffLeft   == WrapSub(sub[2], main[1])
  IN IF diffFirst <= WIN
     THEN IF diffSecond > WIN
          THEN << <<main[1], sub[1]>>, <<sub[2], main[2]>> >>   \* sub inside main
          ELSE IF diffFirst >= sizeMain
               THEN << main >>                                  \* sub right of main
               ELSE << <<main[1], sub[1]>> >>                   \* overlaps the right part
     ELSE IF diffSecond > WIN
          THEN IF diffLeft > WIN
               THEN << main >>                                  \* sub left of main
               ELSE << <<sub[2], main[2]>> >>                   \* overlaps the left part
          ELSE << >>                                            \* sub covers main

(***************************************************************************)
(* Reference definitions: true arithmetic modulo 2^SeqBits, and the set of *)
(* sequence numbers a range [l, r) stands for.                             *)
(***************************************************************************)
ModAdd(x, n) == (x + n) % M
ModSub(x, y) == (x - y) % M
RangeSeqs(r) == { ModAdd(r[1], i) : i \in 0 .. ModSub(r[2], r[1]) - 1 }
=============================================================================
