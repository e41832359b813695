--------------------------- MODULE StatelessCrypto ---------------------------
(***************************************************************************)
(* Stateless verification requests: how the executors make the request     *)
(* that travels with a transaction's digest, and what the check of such a  *)
(* request says.  In the synthetic mode the check only takes time; in the  *)
(* others the request carries a signature over the digest, made with the   *)
(* one key the program has for the scheme, and the public key.             *)
(*                                                                         *)
(* A key is its scheme.  A signature is its scheme, the key it was made    *)
(* with and the digest it covers; the schemes themselves are ideal.        *)
(***************************************************************************)

\* What each mode that signs signs with.
SchemeOf ==
    [Ed25519   |-> "Ed25519Dalek",
     Bls       |-> "Bls12381MinSig",
     Secp256k1 |-> "Secp256k1Ecdsa",
     P256      |-> "P256Ecdsa",
     Schnorr   |-> "Secp256k1Schnorr"]

StatelessModes == {"Synthetic"} \cup DOMAIN SchemeOf

\* The public key of the program's own key pair.
PublicKey(scheme) == [scheme |-> scheme]

Signature(scheme, key, digest) == [scheme |-> scheme, key |-> key, digest |-> digest]

\* make_ed25519_request and its siblings.
SignedRequest(scheme, digest) ==
    [kind |-> "Crypto", digest |-> digest, scheme |-> scheme,
     public_key |-> PublicKey(scheme),
     signature |-> Signature(scheme, PublicKey(scheme), digest)]

make_verification_request(stateless_mode, digest) ==
    IF stateless_mode = "Synthetic"
    THEN [kind |-> "Synthetic", digest |-> digest]
    ELSE SignedRequest(SchemeOf[stateless_mode], digest)

\* verify_ed25519_request and its siblings: the two byte strings have to be a
\* key and a signature of the scheme, and the signature one over the digest.
Verifies(scheme, digest, public_key, signature) ==
    /\ public_key.scheme = scheme
    /\ signature.scheme = scheme
    /\ signature.key = public_key
    /\ signature.digest = digest

verify_request(request) ==
    /\ request.kind = "Crypto"
    /\ Verifies(request.scheme, request.digest, request.public_key, request.signature)

\* Mutant: every request is handed to verify_request.
verify_transaction_AllCrypto(request) == verify_request(request)

\* The executors' verify_transaction.
verify_transaction(request) == request.kind = "Synthetic" \/ verify_request(request)

=============================================================================
