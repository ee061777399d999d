------------------------------ MODULE MCDecode ------------------------------
(* Instances of Decode for TLC.  lok publishes its keys at a uri, backup   *)
(* has them inline and a revocation list, lost a key file that is not      *)
(* there, odd and torn have keys inline, all for auth tokens; rekuest has  *)
(* a key file for provenance tokens.  They use the same key ids.           *)
EXTENDS Decode

CONSTANTS
    lok, backup, lost, odd, torn, rekuest,  \* the issuers
    k1, k2,           \* key ids
    a1, a2, b2, p1,   \* keys
    j1,               \* a token id
    t1                \* the thread that makes every kind of call

MCKind == lok :> "jwks_uri" @@ backup :> "jwks_dict" @@ lost :> "rsa_file" @@ odd :> "jwks_dict" @@ torn :> "jwks_dict" @@ rekuest :> "rsa_file"
MCTrusted == [auth |-> {lok, backup, lost, odd, torn}, provenance |-> {rekuest}]
MCLocks == Issuers \X {"keys", "revoked"}

(* lok rotates a key in, or publishes what the index refuses; the key file *)
(* of lost cannot be read; odd has its key beside one of no known type,    *)
(* and torn something that is no key.                                      *)
MCDocuments ==
    lok :> {k1 :> a1, k1 :> a1 @@ k2 :> a2, <<>>} @@ backup :> {k2 :> b2} @@ lost :> {None}
    @@ odd :> {k1 :> b2 @@ k2 :> NoKey} @@ torn :> {Garbled} @@ rekuest :> {k1 :> p1}

(* Nothing that goes wrong can be laid to the keys. *)
Unchanging == lok :> {k1 :> a1} @@ backup :> {k2 :> b2} @@ lost :> {k1 :> b2} @@ odd :> {k1 :> b2} @@ torn :> {k1 :> b2} @@ rekuest :> {k1 :> p1}

Token(i, k, s, j, f) == [iss |-> i, kid |-> k, signer |-> s, jti |-> j, flaw |-> f]
Auth(token, inLoop) == [domain |-> "auth", token |-> token, inLoop |-> inLoop]
Provenance(token) == [domain |-> "provenance", token |-> token, inLoop |-> FALSE]

Fetching == Auth(Token(lok, k2, a2, None, None), FALSE)
InLoop == Auth(Token(lok, k1, a1, None, None), TRUE)
Forged == Auth(Token(lok, k2, b2, None, None), TRUE)
Attested(f) == Provenance(Token(rekuest, k1, p1, None, f))
Checked(inLoop) == Auth(Token(backup, k2, b2, j1, None), inLoop)

(* Calls that need no lock: of an unknown kid, with an unreadable key file *)
(* or the keys of odd or torn, of the other domain, and every flaw in one domain   *)
(* or the other.                                                           *)
Lockless ==
    {Auth(Token(backup, k1, b2, j1, None), FALSE),
     Auth(Token(lost, k1, b2, None, None), FALSE),
     Auth(Token(odd, k1, b2, None, None), FALSE),
     Auth(Token(torn, k1, b2, None, None), FALSE),
     Auth(Token(rekuest, k1, p1, None, None), FALSE)}
    \cup {Auth(Token(backup, k2, b2, None, f), FALSE) : f \in {None, "header", "expired", "iat_range"}}
    \cup {Attested(f) : f \in {None, "algorithm", "claims", "shape", "aud", "exp_range"}}

(* Two threads contend for the keys of lok, two for the list of backup; or *)
(* one fetches while the other has calls that need no lock.                *)
MCWorkloads ==
    {[t \in Threads |-> {Fetching} \cup IF t = t1 THEN {InLoop, Forged, Attested(None)} ELSE {}],
     [t \in Threads |-> {Checked(FALSE)} \cup IF t = t1 THEN {Checked(TRUE)} ELSE {}],
     [t \in Threads |-> IF t = t1 THEN Lockless ELSE {Fetching}]}

Genuine == {[t \in Threads |-> {Auth(Token(lok, k1, a1, None, None), FALSE)}]}
Provenances == {[t \in Threads |-> {Attested(f) : f \in Flaws}]}
=============================================================================
