--------------------------- MODULE SignedPayload ---------------------------
(***************************************************************************)
(* The buffer of a signed payload (PayloadPacker and PayloadUnpacker in    *)
(* src/ski/ski.support.go): the length of the SigHeader, the SigHeader,    *)
(* the client's header and body, the length of the signature, and the      *)
(* signature.  The signature of a hash is what the signing session         *)
(* returns; it verifies for the bytes that were signed and no others.      *)
(***************************************************************************)
EXTENDS ProtoWire

CONSTANT SignatureOf(_)     \* of the bytes that are hashed

\* The SigHeader that PackAndSign writes.
HeaderOf(key, hashKit, codec, header, body) ==
    [SignerCryptoKit |-> key.kit, SignerPubKey |-> key.pub, HashKitID |-> hashKit,
     HeaderCodec |-> codec, HeaderSz |-> Len(header), BodySz |-> Len(body)]

\* What is hashed and signed: the two bytes of the length, and the three parts.
Hashed(hdr, header, body) ==
    <<Len(hdr) % 256, (Len(hdr) \div 256) % 256>> \o hdr \o header \o body

\* PackAndSign
Pack(key, hashKit, codec, header, body) ==
    LET hdr == Marshal("SigHeader", HeaderOf(key, hashKit, codec, header, body))
        hashed == Hashed(hdr, header, body)
    IN hashed \o <<Len(SignatureOf(hashed))>> \o SignatureOf(hashed)

\* The end of the SigHeader: the low byte is added to 2 before the high byte
\* is or'ed in, so that a carry may fall on a bit of the high byte.  The mutant
\* forgets the two bytes of the length.
MutantHeaderEnd(b) == b[1] + 256 * b[2]
HeaderEnd(b) ==
    LET low == 2 + b[1]
    IN IF low >= 256 /\ b[2] % 2 = 1 THEN low - 256 + 256 * b[2] ELSE low + 256 * b[2]

\* What UnpackAndVerify makes of a buffer with the SigHeader hdr up to hdrEnd.
UnpackWith(b, hdrEnd, hdr) ==
    LET headerEnd == hdrEnd + hdr.msg.HeaderSz
        bodyEnd == headerEnd + hdr.msg.BodySz
        sig == SubSeq(b, bodyEnd + 2, bodyEnd + 1 + b[bodyEnd + 1])
    IN IF ~hdr.ok THEN [ok |-> FALSE]
       ELSE IF bodyEnd > Len(b) - 1 THEN [ok |-> FALSE]
       ELSE [ok |-> sig = SignatureOf(SubSeq(b, 1, bodyEnd)),
             header |-> SubSeq(b, hdrEnd + 1, headerEnd),
             body |-> SubSeq(b, headerEnd + 1, bodyEnd),
             codec |-> hdr.msg.HeaderCodec, hashKit |-> hdr.msg.HashKitID,
             signer |-> [kit |-> hdr.msg.SignerCryptoKit, pub |-> hdr.msg.SignerPubKey]]

\* UnpackAndVerify, on a buffer whose lengths fit it.
Unpack(b) ==
    LET hdrEnd == HeaderEnd(b)
    IN IF Len(b) < 50 \/ hdrEnd > Len(b) - 10 THEN [ok |-> FALSE]
       ELSE UnpackWith(b, hdrEnd, Unmarshal("SigHeader", Zero("SigHeader"), SubSeq(b, 3, hdrEnd)))
=============================================================================
