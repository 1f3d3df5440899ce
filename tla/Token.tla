-------------------------------- MODULE Token --------------------------------
(***************************************************************************)
(* Token strings: an id, a session id and a signature, joined by '.'.      *)
(* What counts in a string is where its separators are, so a string is the *)
(* sequence of the pieces between them, and joining is concatenation.      *)
(*                                                                         *)
(* base64 (RawURLEncoding) gives one piece, whatever it encodes.  Decoding *)
(* is not strict: a piece has its bytes and a spelling, and several        *)
(* spellings have the same bytes.  The HMAC is taken to be injective.      *)
(***************************************************************************)
EXTENDS Naturals, Sequences

CONSTANT
    Key  \* opts.key, with opts.method

\* A piece that is not base64.
Plain(b) == [bytes |-> b, spelling |-> "none"]

EncodeSegment(b) == <<[bytes |-> b, spelling |-> "canonical"]>>

\* DecodeSegment accepts the string.
IsSegment(s) == Len(s) = 1 /\ s[1].spelling # "none"

Mac(s) == [key |-> Key, of |-> s]

Sign(s) == EncodeSegment(Mac(s))

Verify(s, signature) == IsSegment(signature) /\ signature[1].bytes = Mac(s)

-----------------------------------------------------------------------------
\* Mutant: the id of a user goes into the token as it is.
eidRaw(user) == user

\* What the manager passes to CreateToken and to the provider's Destroy for
\* the id of a user, which may be any string.
eid(user) == EncodeSegment(user)

Join(s, t) == s \o t

\* newSessionID and the signing.
createToken(id, uuid) ==
    LET signingString == Join(id, EncodeSegment(uuid))
    IN  Join(signingString, Sign(signingString))

Invalid == [ok |-> FALSE]

\* The signature is what follows the last separator, the id what precedes the
\* first, and both must be there.
Split(token) ==
    LET n == Len(token) IN
    IF n < 3 THEN Invalid
    ELSE [ok |-> TRUE, id |-> SubSeq(token, 1, 1), sessionid |-> SubSeq(token, 2, n - 1),
          signature |-> SubSeq(token, n, n)]

\* The tokens that Get and Refresh of the manager let through.
Accepted(token) ==
    /\ Split(token).ok
    /\ Verify(SubSeq(token, 1, Len(token) - 1), Split(token).signature)

-----------------------------------------------------------------------------
(* The helpers of package cryptoer, a second form of tokens: the id is not *)
(* encoded, and Decode looks for it from the end of the token.             *)

Encode(id, sessionid) == Join(Join(id, sessionid), Sign(Join(id, sessionid)))

Decode(token) ==
    LET n     == Len(token)
        value == SubSeq(token, 1, n - 1)
    IN  IF n < 3 \/ ~Verify(value, SubSeq(token, n, n)) THEN Invalid
        ELSE [ok |-> TRUE, id |-> SubSeq(value, 1, n - 2), sessionid |-> SubSeq(value, n - 1, n - 1)]
=============================================================================
