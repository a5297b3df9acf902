-------------------------------- MODULE Names --------------------------------
(***************************************************************************)
(* TrimSpace of utils/format.go, which cleans the names and symbols that   *)
(* token metadata pads with zero bytes.                                    *)
(***************************************************************************)
EXTENDS Integers, Sequences

CONSTANTS
  Letters,      \* bytes that are neither space nor zero
  MaxName       \* bound: no name is longer

ASSUME NamesAssumption == MaxName \in Nat /\ {"space", "zero"} \intersect Letters = {}

VARIABLES
  raw,          \* the name as the metadata has it
  trimmed       \* what TrimSpace made of it

nameVars == <<raw, trimmed>>

Bytes == Letters \union {"space", "zero"}
RawNames == UNION {[1 .. n -> Bytes] : n \in 0 .. MaxName}

\* The part of s from its first to its last byte other than drop.
Between(s, drop) ==
  LET kept == {i \in DOMAIN s : s[i] # drop}
  IN IF kept = {} THEN <<>>
     ELSE SubSeq(s, CHOOSE i \in kept : \A j \in kept : i <= j,
                    CHOOSE i \in kept : \A j \in kept : j <= i)

\* The index after the last nonzero byte, as the backward loop finds it: it
\* stops above the first byte, and finds zero if it finds nothing.
EndOf(s) ==
  LET kept == {i \in 2 .. Len(s) : s[i] # "zero"}
  IN IF kept = {} THEN 0 ELSE CHOOSE i \in kept : \A j \in kept : j <= i

\* The bytes before the first nonzero one; none are dropped if all are zero.
StartOf(s) ==
  LET kept == {i \in DOMAIN s : s[i] # "zero"}
  IN IF kept = {} THEN 0 ELSE (CHOOSE i \in kept : \A j \in kept : i <= j) - 1

\* Mutant of TrimSpace: the zero bytes go first.
TrimZerosFirst(s) ==
  LET t == SubSeq(s, StartOf(s) + 1, EndOf(s)) IN Between(t, "space")

\* strings.TrimSpace, then the slice between the two loops' indices.
TrimSpace(s) ==
  LET t == Between(s, "space") IN SubSeq(t, StartOf(t) + 1, EndOf(t))

NamesInit == raw = <<>> /\ trimmed = <<>>

NameCleaned ==
  /\ raw = <<>>
  /\ \E s \in RawNames : raw' = s /\ trimmed' = TrimSpace(s)

NamesNext == NameCleaned

NamesSpec == NamesInit /\ [][NamesNext]_nameVars

-----------------------------------------------------------------------------
\* A cleaned name neither starts nor ends with a zero byte, and it is the whole
\* name between its padding - except that a name of one byte that comes first
\* is lost altogether.
NamesTrimmed ==
  LET name == Between(Between(raw, "space"), "zero")
      first == {i \in DOMAIN Between(raw, "space") : Between(raw, "space")[i] # "zero"}
  IN trimmed = IF first = {1} THEN <<>> ELSE name
=============================================================================
