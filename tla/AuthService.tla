---------------------------- MODULE AuthService -----------------------------
(***************************************************************************)
(* The accounts and token pairs of the API, as the auth services and the   *)
(* JWT strategy see them.  A token pair is an access token (a JWT nobody   *)
(* stores) and a refresh token, kept in the database as a digest.  One     *)
(* pair is one member of Token; pairs that nothing can use again may be    *)
(* issued anew, so that runs of any length fit in a small Token.           *)
(***************************************************************************)
EXTENDS Naturals, FiniteSets

CONSTANTS Account, Token, NULL

ASSUME AccountAssumption == NULL \notin Account \cup Token

Role == {"host", "guest", "admin"}

(***************************************************************************)
(* Digests.  bcrypt salts what it hashes, so no digest computed from the   *)
(* token alone ever equals a stored one.                                   *)
(***************************************************************************)
DigestStored(k) == <<"bcrypt", k>>
DigestLookedUp(k) == <<"sha256", k>>

\* A pair: who it was issued to, whether its access token is within its
\* lifetime, and whether the row of its refresh token is neither revoked nor
\* expired.
Pair == [owner: Account \cup {NULL}, access: BOOLEAN, live: BOOLEAN]
NoPair == [owner |-> NULL, access |-> FALSE, live |-> FALSE]
NewPair(a) == [owner |-> a, access |-> TRUE, live |-> TRUE]

(***************************************************************************)
(* What the tables hold of an account of each role.  A guest row may come  *)
(* from a checkout, and has no password then; admins are seeded.           *)
(***************************************************************************)
AccountRow == [host |-> {"none", "active", "suspended"},
               guest |-> {"none", "checkout", "active"},
               admin |-> {"active"}]
FirstRow == [host |-> "none", guest |-> "none", admin |-> "active"]

\* The row the refresh endpoints look for: the digest, unrevoked, unexpired.
\* (First a mutant with one digest for both, as the hardening guide wants it.)
FindsRowByOneDigest(k, pair) == pair[k].live

FindsRow(k, pair) ==
  /\ DigestStored(k) = DigestLookedUp(k)
  /\ pair[k].live

\* JwtStrategy: an access token within its lifetime.  No table is read.
Authenticates(k, pair) == pair[k].access

\* Logging out revokes every live row of the account.
RevokeAll(a, pair) ==
  [k \in Token |-> IF pair[k].owner = a
                     THEN [pair[k] EXCEPT !.live = FALSE] ELSE pair[k]]
=============================================================================
