------------------------------- MODULE Receipt -------------------------------
(***************************************************************************)
(* The data of provably-core and the signing half of provably-transport:   *)
(* digests, attested legs, nodes, receipts.  Cryptography is ideal: the    *)
(* digest and the signature are injective constructors, so equality of     *)
(* digests is equality of contents and a signature is accepted exactly     *)
(* under the key and over the claim it was made with.                      *)
(*                                                                         *)
(* Byte strings decode or they do not: a header is base64url text when it  *)
(* says so, and that text is JSON when it says so.                         *)
(***************************************************************************)
EXTENDS Naturals, Sequences, Functions

\* Option<T>.
None == << >>
Some(v) == <<v>>

\* The canonical digest: lowercase hex of SHA-256.
Sha256(bytes) == <<"sha256", bytes>>

\* The facts attested about one external call.
LegClaim(host, line, request_digest, response_digest, response_status, timestamp) ==
    [host |-> host, method |-> line.method, path |-> line.path,
     request_digest |-> request_digest, response_digest |-> response_digest,
     response_status |-> response_status, timestamp |-> timestamp]

\* The domain-separated, deterministic bytes of a claim that get signed.
SigningMessage(claim) == <<"provably/leg-attestation/v1", claim>>

\* A notary's key is derived from its seed.
FromSeed(seed) == [secret |-> Sha256(seed)]
PublicKeyHex(notary) == <<"public key", notary.secret>>

\* Hex that does not decode to the expected length, and 32 bytes that are not
\* a point of the curve.  A notary's key is neither.
BadHex == <<"bad hex">>
BadPoint == <<"bad point">>

\* Notary::attest: sign a claim and wrap it as an attested leg.
Attest(notary, claim) ==
    LET key == PublicKeyHex(notary)
    IN  [claim |-> claim,
         proof |-> [pubkey    |-> key,
                    signature |-> [key |-> key, message |-> SigningMessage(claim)]]]

\* LegAttestation::verify_proof, its errors in the order the code meets them.
VerifyProof(att) ==
    LET pubkey == att.proof.pubkey
        sig    == att.proof.signature
    IN  CASE pubkey = BadHex                                 -> "Malformed"
          [] pubkey = BadPoint                               -> "BadKey"
          [] pubkey \notin {BadHex, BadPoint} /\ sig.key = BadHex -> "Malformed"
          [] OTHER -> IF /\ sig.key = pubkey
                         /\ sig.message = SigningMessage(att.claim)
                      THEN "Ok" ELSE "BadSignature"

NotaryPubkey(att) == att.proof.pubkey

\* NodeProof and InteriorProof.
Leg(att) == [kind |-> "leg", att |-> att]
Recompute(fn_id) == [kind |-> "interior", fn_id |-> fn_id]
IsLeg(node) == node.proof.kind = "leg"

\* The public commitment a buyer pins.
Manifest(id, hosts) == [id |-> id, hosts |-> hosts]

\* HarnessReceipt::to_header / from_header: base64url(JSON), and back unless
\* either layer is malformed.
Base64(bytes) == <<"base64url", bytes>>
Json(value) == <<"json", value>>
ToHeader(value) == Base64(Json(value))
FromHeader(header) ==
    IF header[1] = "base64url" /\ header[2][1] = "json"
    THEN Some(header[2][2]) ELSE None

\* materials_to_header / materials_from_header: the same around a map whose
\* every entry is base64url of its own; one malformed entry spoils the map.
MaterialsToHeader(materials) ==
    ToHeader([id \in DOMAIN materials |-> Base64(materials[id])])
MaterialsFromHeader(header) ==
    LET encoded == FromHeader(header)
    IN  IF encoded # None
           /\ \A id \in DOMAIN encoded[1] : encoded[1][id][1] = "base64url"
        THEN Some([id \in DOMAIN encoded[1] |-> encoded[1][id][2]]) ELSE None

\* receipt.nodes.iter().map(|n| (n.id, n)).collect(): a later node with the
\* same id replaces an earlier one.
HasNode(receipt, id) == \E i \in DOMAIN receipt.nodes : receipt.nodes[i].id = id

NodeOf(receipt, id) ==
    LET i == CHOOSE i \in DOMAIN receipt.nodes :
                /\ receipt.nodes[i].id = id
                /\ \A j \in DOMAIN receipt.nodes :
                        receipt.nodes[j].id = id => j <= i
    IN  receipt.nodes[i]
=============================================================================
