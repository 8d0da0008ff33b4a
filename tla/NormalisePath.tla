--------------------------- MODULE NormalisePath ---------------------------
(***************************************************************************)
(* NormalisePath::normalize_path_inplace: one pass over a path with a      *)
(* reading and a writing position in the same bytes.  A segment is looked  *)
(* at when its last byte is read.                                          *)
(***************************************************************************)
EXTENDS Transformations

Slashes(win) == IF win THEN {Ch.slash, Ch.backslash} ELSE {Ch.slash}

(* On Windows the byte read and the next one become forward slashes.       *)
Forward(s, win) ==
    LET here == {k \in {s.src, s.src + 1} \cap 1..Len(s.buf) : s.buf[k] = Ch.backslash}
    IN  IF win /\ here # {}
          THEN [s EXCEPT !.changed = TRUE,
                         !.buf = [k \in 1..Len(@) |-> IF k \in here THEN Ch.slash ELSE @[k]]]
          ELSE s

(* The slash before position d, or the first byte.                         *)
BackTo(buf, d) ==
    LET slashes == {k \in 2..d : buf[k] = Ch.slash}
    IN  IF d <= 1 THEN d
        ELSE IF slashes = {} THEN 1
        ELSE CHOOSE k \in slashes : \A l \in slashes : l <= k

(* The label copy: one of several slashes, none at the start of a relative *)
(* path, or the byte itself.                                               *)
CopyByte(s, relative, win) ==
    LET n    == Len(s.buf)
        last == IF s.buf[s.src] # Ch.slash THEN s.src
                ELSE CHOOSE k \in s.src..n :
                       /\ \A l \in s.src + 1..k : s.buf[l] \in Slashes(win)
                       /\ k = n \/ s.buf[k + 1] \notin Slashes(win)
        t    == [s EXCEPT !.src = last + 1, !.changed = @ \/ last # s.src]
    IN  IF s.buf[s.src] = Ch.slash /\ relative /\ s.dst = 1 THEN t
        ELSE [t EXCEPT !.buf[s.dst] = s.buf[last], !.dst = @ + 1]

(* A segment that ends in two dots takes the one before it along, but not  *)
(* above the root.                                                         *)
BackReference(s, relative, win) ==
    LET n    == Len(s.buf)
        back == BackTo(s.buf, s.dst - 3)
        t    == IF back > 1 THEN [s EXCEPT !.dst = back]
                ELSE [s EXCEPT !.hitroot = TRUE,
                               !.dst = IF ~relative /\ s.src = n THEN 2 ELSE 1]
    IN  CASE relative /\ (s.hitroot \/ s.dst - 2 <= 1)
               -> CopyByte([s EXCEPT !.hitroot = TRUE], relative, win)
          [] OTHER ->
             IF s.done THEN t
             ELSE CopyByte([t EXCEPT !.src = @ + 1, !.changed = TRUE], relative, win)

SelfReference(s, relative, win) ==
    LET t == [s EXCEPT !.changed = TRUE]
    IN  IF s.done THEN t
        ELSE CopyByte([t EXCEPT !.src = @ + 1, !.dst = IF @ = 1 THEN 1 ELSE @ - 1],
                      relative, win)

Segment(s, relative, win) ==
    LET n == Len(s.buf)
        d == [s EXCEPT !.done = s.src = n]
        before == IF s.dst = 1 THEN Ch.slash ELSE s.buf[s.dst - 1]
    IN  CASE s.src < n /\ s.buf[s.src + 1] # Ch.slash -> CopyByte(s, relative, win)
          [] OTHER ->
             CASE s.src # n /\ s.buf[s.src] = Ch.slash
                    -> CopyByte([d EXCEPT !.changed = TRUE], relative, win)
               [] s.buf[s.src] = Ch.dot /\ before = Ch.dot -> BackReference(d, relative, win)
               [] s.buf[s.src] = Ch.dot /\ before = Ch.slash -> SelfReference(d, relative, win)
               [] s.buf[s.src] # Ch.dot /\ (s.src = n \/ s.buf[s.src] # Ch.slash)
                    -> CopyByte([d EXCEPT !.hitroot = @ /\ s.dst = 1], relative, win)
               [] OTHER -> CopyByte(d, relative, win)

RECURSIVE Normalised(_, _, _)
Normalised(s, relative, win) ==
    IF s.done \/ s.src > Len(s.buf) \/ s.dst > Len(s.buf) THEN s
    ELSE LET t == Segment(Forward(s, win), relative, win)
         IN  Normalised([t EXCEPT !.ahead = @ \/ t.dst > t.src], relative, win)

WithoutTrailing(in, s, win) ==
    IF in[Len(in)] \notin Slashes(win) /\ s.dst > 1 /\ s.buf[s.dst - 1] = Ch.slash
      THEN SubSeq(s.buf, 1, s.dst - 2)
      ELSE SubSeq(s.buf, 1, s.dst - 1)

PathOf(in, s, win) == [out |-> WithoutTrailing(in, s, win), told |-> s.changed, ahead |-> s.ahead]

normalize_path_inplace(in, win) ==
    LET start == [src |-> 1, dst |-> 1, buf |-> in, hitroot |-> FALSE, done |-> FALSE,
                  changed |-> FALSE, ahead |-> FALSE]
    IN  IF in = << >> THEN Result(in, FALSE)
        ELSE PathOf(in, Normalised(start, in[1] \notin Slashes(win), win), win)

normalisePath(in)    == normalize_path_inplace(in, FALSE)
normalisePathWin(in) == normalize_path_inplace(in, TRUE)
=============================================================================
