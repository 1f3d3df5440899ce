------------------------------ MODULE TokenProof ------------------------------
(***************************************************************************)
(* Proofs about token strings, for every id a user may have and any bytes  *)
(* in the place of a uuid.                                                 *)
(***************************************************************************)
EXTENDS Token, SequenceTheorems, TLAPS

\* A part of a string of one piece.
LEMMA OnePiece ==
    ASSUME NEW S, NEW s \in Seq(S), NEW i \in 1..Len(s)
    PROVE  SubSeq(s, i, i) = <<s[i]>>
<1>1. s[i] \in S /\ i \in Int
  BY ElementOfSeq
<1>2. /\ SubSeq(s, i, i) \in Seq(S) /\ Len(SubSeq(s, i, i)) = 1
      /\ \A j \in 1..1 : SubSeq(s, i, i)[j] = s[i + j - 1]
  <2>1. \A j \in i..i : s[j] \in S
    BY <1>1
  <2> QED
    BY <1>1, <2>1, SubSeqProperties
<1>3. <<s[i]>> \in Seq(S) /\ Len(<<s[i]>>) = 1 /\ <<s[i]>>[1] = s[i]
  BY <1>1
<1>4. \A j \in 1..1 : SubSeq(s, i, i)[j] = <<s[i]>>[j]
  BY <1>1, <1>2, <1>3
<1> QED
  BY <1>2, <1>3, <1>4, SeqEqual

\* A string of pieces and one more joined to it, and how to part them.
LEMMA JoinFacts ==
    ASSUME NEW S, NEW s \in Seq(S), NEW a \in S
    PROVE  LET t == Join(s, <<a>>) IN
           /\ t \in Seq(S)
           /\ Len(t) = Len(s) + 1
           /\ \A i \in 1..Len(s) : t[i] = s[i]
           /\ SubSeq(t, 1, Len(t) - 1) = s
           /\ SubSeq(t, Len(t), Len(t)) = <<a>>
<1> DEFINE t == Join(s, <<a>>)
           k == Len(s)
<1>1. k \in Nat /\ <<a>> \in Seq(S) /\ Len(<<a>>) = 1 /\ <<a>>[1] = a
  BY LenProperties
<1>2. /\ t \in Seq(S) /\ Len(t) = k + 1
      /\ \A i \in 1..k + 1 : t[i] = IF i <= k THEN s[i] ELSE <<a>>[i - k]
  BY <1>1, ConcatProperties DEF Join
<1> HIDE DEF t
<1>3. t[k + 1] = a /\ \A i \in 1..k : t[i] = s[i]
  BY <1>1, <1>2
<1>4. /\ SubSeq(t, 1, k) \in Seq(S) /\ Len(SubSeq(t, 1, k)) = k
      /\ \A i \in 1..k : SubSeq(t, 1, k)[i] = s[i]
  <2>1. \A i \in 1..k : t[i] \in S
    BY <1>1, <1>2, ElementOfSeq
  <2>2. /\ SubSeq(t, 1, k) \in Seq(S)
        /\ Len(SubSeq(t, 1, k)) = IF 1 <= k THEN k - 1 + 1 ELSE 0
        /\ \A i \in 1..k - 1 + 1 : SubSeq(t, 1, k)[i] = t[1 + i - 1]
    BY <1>1, <2>1, SubSeqProperties
  <2> QED
    BY <1>1, <1>3, <2>2
<1>5. SubSeq(t, 1, k) = s
  BY <1>4, SeqEqual
<1>6. SubSeq(t, k + 1, k + 1) = <<a>>
  BY <1>1, <1>2, <1>3, OnePiece
<1>7. Len(t) - 1 = k
  BY <1>1, <1>2
<1> QED
  BY <1>2, <1>3, <1>5, <1>6, <1>7 DEF t

\* Verify accepts what Sign signed, with the same key.
LEMMA SignedVerifies == \A s : Verify(s, Sign(s))
BY DEF Verify, Sign, EncodeSegment, IsSegment

\* Manager.Create passes the id of a user to CreateToken in base64: whatever
\* the id of the user is, separators included, the provider finds in the token
\* what Destroy will be called with, and the manager accepts the token.
THEOREM TokenTellsItsUser ==
    ASSUME NEW user, NEW uuid
    PROVE  LET t == createToken(eid(user), uuid) IN
           /\ Split(t).ok
           /\ Split(t).id = eid(user)
           /\ Accepted(t)
<1> DEFINE e(b) == [bytes |-> b, spelling |-> "canonical"]
           s == Join(<<e(user)>>, <<e(uuid)>>)
           m == e(Mac(s))
           t == createToken(eid(user), uuid)
           S == {e(user), e(uuid), m}
<1>1. eid(user) = <<e(user)>> /\ EncodeSegment(uuid) = <<e(uuid)>> /\ Sign(s) = <<m>>
  BY DEF eid, EncodeSegment, Sign
<1>2. t = Join(s, <<m>>)
  BY <1>1 DEF createToken
<1>3. e(user) \in S /\ e(uuid) \in S /\ m \in S
  OBVIOUS
<1> HIDE DEF e, m, S, t
<1>4. <<e(user)>> \in Seq(S) /\ Len(<<e(user)>>) = 1 /\ <<e(user)>>[1] = e(user)
  BY <1>3
<1>5. s \in Seq(S) /\ Len(s) = 2 /\ s[1] = e(user)
  <2>1. /\ s \in Seq(S) /\ Len(s) = Len(<<e(user)>>) + 1
        /\ \A i \in 1..Len(<<e(user)>>) : s[i] = <<e(user)>>[i]
    BY <1>3, <1>4, JoinFacts
  <2> QED
    BY <1>4, <2>1
<1> HIDE DEF s
<1>6. /\ t \in Seq(S) /\ Len(t) = Len(s) + 1
      /\ \A i \in 1..Len(s) : t[i] = s[i]
      /\ SubSeq(t, 1, Len(t) - 1) = s
      /\ SubSeq(t, Len(t), Len(t)) = <<m>>
  BY <1>2, <1>3, <1>5, JoinFacts
<1>7. Len(t) = 3 /\ t[1] = e(user)
  BY <1>5, <1>6
<1>8. SubSeq(t, 1, 1) = <<e(user)>>
  BY <1>6, <1>7, OnePiece
<1>9. Verify(s, <<m>>)
  BY <1>1, SignedVerifies
<1>10. Split(t).ok /\ Split(t).id = eid(user) /\ Split(t).signature = <<m>>
  <2>1. Split(t) = [ok |-> TRUE, id |-> SubSeq(t, 1, 1), sessionid |-> SubSeq(t, 2, Len(t) - 1),
                    signature |-> SubSeq(t, Len(t), Len(t))]
    BY <1>7 DEF Split
  <2> QED
    BY <1>1, <1>6, <1>8, <2>1
<1> QED
  BY <1>6, <1>9, <1>10 DEF Accepted, t

\* Decode of package cryptoer undoes Encode for an id of any number of pieces:
\* it looks for the separators from the end, where the session id and the
\* signature have none.
THEOREM DecodeUndoesEncode ==
    ASSUME NEW S, NEW id \in Seq(S), id # <<>>, NEW b
    PROVE  Decode(Encode(id, EncodeSegment(b))) =
              [ok |-> TRUE, id |-> id, sessionid |-> EncodeSegment(b)]
<1> DEFINE e(x) == [bytes |-> x, spelling |-> "canonical"]
           s == Join(id, <<e(b)>>)
           m == e(Mac(s))
           t == Encode(id, EncodeSegment(b))
           T == S \cup {e(b), m}
<1>1. EncodeSegment(b) = <<e(b)>> /\ Sign(s) = <<m>>
  BY DEF EncodeSegment, Sign
<1>2. t = Join(s, <<m>>)
  BY <1>1 DEF Encode
<1>3. e(b) \in T /\ m \in T /\ S \subseteq T
  OBVIOUS
<1> HIDE DEF e, m, T, t
<1>4. id \in Seq(T) /\ Len(id) \in Nat \ {0}
  BY <1>3, SeqMonotonic, EmptySeq
<1>5. /\ s \in Seq(T) /\ Len(s) = Len(id) + 1
      /\ SubSeq(s, 1, Len(s) - 1) = id
      /\ SubSeq(s, Len(s), Len(s)) = <<e(b)>>
  BY <1>3, <1>4, JoinFacts
<1> HIDE DEF s
<1>6. /\ Len(t) = Len(s) + 1
      /\ SubSeq(t, 1, Len(t) - 1) = s
      /\ SubSeq(t, Len(t), Len(t)) = <<m>>
  BY <1>2, <1>3, <1>5, JoinFacts
<1>7. Verify(s, <<m>>)
  BY <1>1, SignedVerifies
<1>8. ~(Len(t) < 3) /\ Len(t) - 2 = Len(s) - 1 /\ Len(t) - 1 = Len(s)
  BY <1>4, <1>5, <1>6
<1>9. Decode(t) = [ok |-> TRUE, id |-> SubSeq(s, 1, Len(s) - 1),
                   sessionid |-> SubSeq(s, Len(s), Len(s))]
  BY <1>6, <1>7, <1>8 DEF Decode
<1> QED
  BY <1>1, <1>5, <1>9 DEF t
=============================================================================
