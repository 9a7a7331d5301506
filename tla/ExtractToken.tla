---------------------------- MODULE ExtractToken ----------------------------
(***************************************************************************)
(* extractToken of AudibleMagicSmartSync.m, which finds the value of a     *)
(* token in the engine's response with the regular expression              *)
(*      <token>(.+)</token>                                                *)
(* firstMatchInString takes the leftmost match; the quantifier is greedy   *)
(* and needs one character; the dot matches everything but a line break.   *)
(*                                                                         *)
(* A document is a sequence of items: an opening or closing tag of the     *)
(* token in any case, a line break, or other text.  It is grown one item   *)
(* at a time, and another is begun when it is full.                        *)
(***************************************************************************)
EXTENDS Naturals, Sequences, FiniteSets, FiniteSetsExt

CONSTANT MaxItems  \* bound: items in a document

ExtractTokenAssumption == MaxItems \in Nat

VARIABLE xml

Item == {"open", "close", "newline", "text"}
Nil == <<>>        \* nil: no value is empty

Init == xml = <<>>
Next == IF Len(xml) < MaxItems THEN \E item \in Item : xml' = Append(xml, item) ELSE xml' = <<>>
Spec == Init /\ [][Next]_xml

\* Where an item occurs.
At(item) == {i \in DOMAIN xml : xml[i] = item}
\* The items strictly between two positions.
Within(i, j) == {xml[k] : k \in i+1 .. j-1}

\* Mutant of MatchesFrom: the dot matches line breaks too.
MatchesFromDotAll(i) == {j \in At("close") : j > i + 1}

\* The ends of the matches that begin with the tag at i.
MatchesFrom(i) == {j \in At("close") : j > i + 1 /\ "newline" \notin Within(i, j)}

\* The value of the token, or nil.
ExtractTokenValue ==
  LET first == {i \in At("open") : MatchesFrom(i) # {}}
      i == Min(first)
      j == Max(MatchesFrom(i))
  IN IF first = {} THEN Nil ELSE SubSeq(xml, i + 1, j - 1)

(***************************************************************************)
(* The reference: an instance is an opening tag with the next closing one. *)
(***************************************************************************)
Instances == {ij \in At("open") \X At("close") :
                ij[1] < ij[2] /\ Within(ij[1], ij[2]) \intersect {"open", "close"} = {}}

FirstOf(instances) ==
  IF instances = {} THEN Nil
  ELSE LET ij == CHOOSE p \in instances : \A q \in instances : p[1] <= q[1]
       IN SubSeq(xml, ij[1] + 1, ij[2] - 1)

\* No line of the document has two opening or two closing tags.
SimpleLines ==
  \A i, j \in DOMAIN xml :
    i < j /\ xml[i] = xml[j] /\ xml[i] \in {"open", "close"} => "newline" \in Within(i, j)

\* Comment of extractToken, "Returns nil if token wasn't found or was empty":
\* in a document with at most one instance to a line, the value is the first
\* that has one and lies on one line, and nil exactly when there is none.
ValueOnSimpleLines ==
  SimpleLines =>
    ExtractTokenValue =
      FirstOf({ij \in Instances : ij[2] > ij[1] + 1 /\ "newline" \notin Within(ij[1], ij[2])})
=============================================================================
