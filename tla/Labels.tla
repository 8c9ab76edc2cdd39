------------------------------- MODULE Labels -------------------------------
(***************************************************************************)
(* The codec of site labels (internal/nip5a/label.go).  A key or event id  *)
(* is a number below KeyCount (2^256 there), written with Width digits of  *)
(* base Base (50 of base 36).  As there, the largest key's first digit is  *)
(* below the letters "n" of npub1 and "v" of snapshots.  Characters are    *)
(* numbers: the digits 0..Base-1, which hold the letters, then "-", then   *)
(* one that labels must not have.                                          *)
(***************************************************************************)
EXTENDS Naturals, Sequences

CONSTANTS Base, Width, KeyCount,
          LetterN,  \* the digit "n" (23 there)
          LetterV,  \* the digit "v" (31 there)
          MaxD      \* the longest d identifier (13 there)

Digits == 0..(Base - 1)
Dash == Base
OtherChar == Base + 1
LabelKeys == 0..(KeyCount - 1)

\* The powers of the base.
Power[n \in 0..Width] == IF n = 0 THEN 1 ELSE Power[n - 1] * Base

ASSUME LabelsAssumption ==
  /\ {Base, Width, KeyCount, MaxD} \subseteq Nat \ {0}
  /\ {LetterN, LetterV} \subseteq Digits /\ LetterN # LetterV
  /\ \A c \in {LetterN, LetterV} : KeyCount <= c * Power[Width - 1]   \* 2^256 < 7 * 36^49

None == [type |-> "none", key |-> 0, d |-> <<>>]
SiteOf(t, k, d) == [type |-> t, key |-> k, d |-> d]

\* Base36Encode32: fixed width, padded with zeros.
Base36Encode32(k) == [i \in 1..Width |-> (k \div Power[Width - i]) % Base]

\* The number that digits stand for.
Value(s) == LET upTo[i \in 0..Len(s)] == IF i = 0 THEN 0 ELSE upTo[i - 1] * Base + s[i]
            IN upTo[Len(s)]

AllIn(s, chars) == \A i \in 1..Len(s) : s[i] \in chars

\* Base36Decode50 accepts Width digits of a value that is a key's.
Decodes(s) == Len(s) = Width /\ AllIn(s, Digits) /\ Value(s) \in LabelKeys

\* IsValidD: 1 to MaxD characters, the last not a dash.
IsValidD(d) == Len(d) \in 1..MaxD /\ AllIn(d, Digits \union {Dash}) /\ d[Len(d)] # Dash

\* NPub and nip19.Decode: "n", the key, and a checksum.
NPub(k) == <<LetterN>> \o Base36Encode32(k) \o <<k % Base>>

NamedLabel(k, d) == Base36Encode32(k) \o d
SnapshotLabel(k) == <<LetterV>> \o Base36Encode32(k)

\* The canonical label of a site.
LabelOf(site) == CASE site.type = "root" -> NPub(site.key)
                   [] site.type = "named" -> NamedLabel(site.key, site.d)
                   [] site.type = "snapshot" -> SnapshotLabel(site.key)

\* A label's tail after its first n characters.
From(l, n) == SubSeq(l, n + 1, Len(l))

DecodeNPub(l) == IF \E k \in LabelKeys : l = NPub(k)
                 THEN SiteOf("root", CHOOSE k \in LabelKeys : l = NPub(k), <<>>) ELSE None
DecodeSnapshot(l) == IF Decodes(From(l, 1)) THEN SiteOf("snapshot", Value(From(l, 1)), <<>>) ELSE None
DecodeNamed(l) == LET key == SubSeq(l, 1, Width) IN
                  IF Decodes(key) THEN SiteOf("named", Value(key), From(l, Width)) ELSE None

IsNPub(l) == Len(l) > 0 /\ l[1] = LetterN
IsSnapshot(l) == Len(l) = Width + 1 /\ l[1] = LetterV /\ AllIn(l, Digits)

\* A mutant of IsNamed: a name may end with a dash.
IsNamedAnyEnd(l) == /\ Len(l) \in (Width + 1)..(Width + MaxD)
                    /\ AllIn(SubSeq(l, 1, Width), Digits)
                    /\ AllIn(From(l, Width), Digits \union {Dash})

IsNamed(l) == /\ Len(l) \in (Width + 1)..(Width + MaxD)
              /\ AllIn(SubSeq(l, 1, Width), Digits)
              /\ AllIn(From(l, Width), Digits \union {Dash})
              /\ l[Len(l)] # Dash

\* A mutant of DecodeLabel: the named form is tried before the snapshots'.
DecodeLabelNamedFirst(l) == CASE IsNPub(l) -> DecodeNPub(l)
                              [] ~ IsNPub(l) /\ IsNamed(l) -> DecodeNamed(l)
                              [] ~ IsNPub(l) /\ ~ IsNamed(l) /\ IsSnapshot(l) -> DecodeSnapshot(l)
                              [] OTHER -> None

\* DecodeLabel: the first form that the label has decides.
DecodeLabel(l) == CASE IsNPub(l) -> DecodeNPub(l)
                    [] ~ IsNPub(l) /\ IsSnapshot(l) -> DecodeSnapshot(l)
                    [] ~ IsNPub(l) /\ ~ IsSnapshot(l) /\ IsNamed(l) -> DecodeNamed(l)
                    [] OTHER -> None
=============================================================================
