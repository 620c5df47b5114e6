------------------------------ MODULE FileName ------------------------------
(***************************************************************************)
(* FileOperate::GetNameWithoutSuffix and GetSuffix of                      *)
(* include/commutils/file_.h: two halves of a file name, computed apart.   *)
(* A name is a sequence of characters.  Operators named Bug... are wrong   *)
(* variants of the next definition.                                        *)
(***************************************************************************)
EXTENDS Integers, Sequences, SequencesExt

CONSTANT FileNames

ASSUME FileNameAssumption == FileNames \subseteq Seq(STRING)

\* What follows the last slash.
Base(f) == SubSeq(f, SelectLastInSeq(f, LAMBDA c : c = "/") + 1, Len(f))

BugHidden(b) == FALSE
Hidden(b) == b # <<>> /\ b[1] = "."

\* Where the dot is looked for: a dot that begins the name does not count.
Rest(b) == IF Hidden(b) THEN Tail(b) ELSE b

\* find('.'), Len(s) + 1 when there is none.
FindDot(s) ==
  LET i == SelectInSeq(s, LAMBDA c : c = ".") IN IF i = 0 THEN Len(s) + 1 ELSE i

GetNameWithoutSuffix(f) ==
  LET b == Base(f) IN
    (IF Hidden(b) THEN <<".">> ELSE <<>>) \o SubSeq(Rest(b), 1, FindDot(Rest(b)) - 1)

GetSuffix(f) ==
  LET s == Rest(Base(f)) IN SubSeq(s, FindDot(s) + 1, Len(s))
-----------------------------------------------------------------------------
\* The name and the suffix make up what follows the last slash, with the dot between them
\* if there is one to put there; the name ends before the first dot that does not begin
\* it, and is empty only if there is nothing after the slash.
Splits(f) ==
  LET b == Base(f)  n == GetNameWithoutSuffix(f)  s == GetSuffix(f) IN
    /\ b = f \/ \E k \in DOMAIN f : f[k] = "/" /\ b = SubSeq(f, k + 1, Len(f))
    /\ \A i \in DOMAIN b : b[i] # "/"
    /\ (b = n /\ s = <<>>) \/ b = n \o <<".">> \o s
    /\ \A i \in 2 .. Len(n) : n[i] # "."
    /\ b # <<>> => n # <<>>

\* Both functions agree about where a name is cut: no other two sequences do all this.
NamesSplit == \A f \in FileNames : Splits(f)
=============================================================================
