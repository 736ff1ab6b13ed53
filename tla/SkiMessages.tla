---------------------------- MODULE SkiMessages -----------------------------
(***************************************************************************)
(* The messages of keys, signatures and crypto operations:                 *)
(* what the generated functions of src/ski/api.ski.pb.go                   *)
(* do with which field, in the meaning that WireFormat and ProtoWire give  *)
(* these lists.                                                            *)
(***************************************************************************)
EXTENDS Naturals, MessageRows

(* CryptOpArgs *)

CryptOpArgsMarshal ==
    <<Put(8, "varint", "CryptOp"), Put(16, "varint", "DefaultCryptoKit"),
      Put(26, "bytes", "BufIn"), Put(34, "KeyRef", "OpKey"),
      Put(42, "bytes", "PeerKey"), Put(50, "KeyTome", "TomeIn")>>
CryptOpArgsSize ==
    <<Count("varint", "CryptOp"), Count("varint", "DefaultCryptoKit"),
      Count("bytes", "BufIn"), Count("KeyRef", "OpKey"),
      Count("bytes", "PeerKey"), Count("KeyTome", "TomeIn")>>
CryptOpArgsUnmarshal ==
    {Read(1, "int32", "CryptOp"), Read(2, "int32", "DefaultCryptoKit"),
     Read(3, "bytes", "BufIn"), Read(4, "KeyRef", "OpKey"),
     Read(5, "bytes", "PeerKey"), Read(6, "KeyTome", "TomeIn")}
CryptOpArgsEqual ==
    {Same("CryptOp"), Same("DefaultCryptoKit"), Same("BufIn"),
     SameMsg("KeyRef", "OpKey"), Same("PeerKey"),
     SameMsg("KeyTome", "TomeIn")}

(* CryptOpOut *)

CryptOpOutMarshal ==
    <<Put(10, "bytes", "BufOut"), Put(18, "bytes", "OpPubKey")>>
CryptOpOutSize ==
    <<Count("bytes", "BufOut"), Count("bytes", "OpPubKey")>>
CryptOpOutUnmarshal ==
    {Read(1, "bytes", "BufOut"), Read(2, "bytes", "OpPubKey")}
CryptOpOutEqual ==
    {Same("BufOut"), Same("OpPubKey")}

(* KeyInfo *)

KeyInfoMarshal ==
    <<Put(8, "varint", "KeyType"), Put(16, "varint", "CryptoKitID"),
      Put(24, "varint", "TimeCreated"), Put(34, "bytes", "PubKey")>>
KeyInfoSize ==
    <<Count("varint", "KeyType"), Count("varint", "CryptoKitID"),
      Count("varint", "TimeCreated"), Count("bytes", "PubKey")>>
KeyInfoUnmarshal ==
    {Read(1, "int32", "KeyType"), Read(2, "int32", "CryptoKitID"),
     Read(3, "int64", "TimeCreated"), Read(4, "bytes", "PubKey")}
KeyInfoEqual ==
    {Same("KeyType"), Same("CryptoKitID"), Same("TimeCreated"),
     Same("PubKey")}

(* KeyRef *)

KeyRefMarshal ==
    <<Put(10, "bytes", "KeyringName"), Put(18, "bytes", "PubKey")>>
KeyRefSize ==
    <<Count("bytes", "KeyringName"), Count("bytes", "PubKey")>>
KeyRefUnmarshal ==
    {Read(1, "bytes", "KeyringName"), Read(2, "bytes", "PubKey")}
KeyRefEqual ==
    {Same("KeyringName"), Same("PubKey")}

(* KeyEntry *)

KeyEntryMarshal ==
    <<Put(10, "KeyInfo", "KeyInfo"), Put(50, "bytes", "PrivKey")>>
KeyEntrySize ==
    <<Count("KeyInfo", "KeyInfo"), Count("bytes", "PrivKey")>>
KeyEntryUnmarshal ==
    {Read(1, "KeyInfo", "KeyInfo"), Read(6, "bytes", "PrivKey")}
\* KeyEntryEqual that leaves out the private key.
MutantKeyEntryEqual == {SameMsg("KeyInfo", "KeyInfo")}
KeyEntryEqual ==
    {SameMsg("KeyInfo", "KeyInfo"), Same("PrivKey")}

(* Keyring *)

KeyringMarshal ==
    <<Put(10, "bytes", "Name"), Put(18, "KeyEntry", "Keys"),
      Put(24, "bool", "SortedByPubKey"), Put(34, "bytes", "NewestPubKey")>>
KeyringSize ==
    <<Count("bytes", "Name"), Count("KeyEntry", "Keys"),
      Count("bool", "SortedByPubKey"), Count("bytes", "NewestPubKey")>>
KeyringUnmarshal ==
    {Read(1, "bytes", "Name"), Collect(2, "KeyEntry", "Keys"),
     Read(3, "bool", "SortedByPubKey"), Read(4, "bytes", "NewestPubKey")}
KeyringEqual ==
    {Same("Name"), SameMsg("KeyEntry", "Keys"), Same("SortedByPubKey"),
     Same("NewestPubKey")}

(* KeyTome *)

KeyTomeMarshal ==
    <<Put(8, "varint", "Rev"), Put(18, "Keyring", "Keyrings"),
      Put(24, "bool", "SortedByName")>>
KeyTomeSize ==
    <<Count("varint", "Rev"), Count("Keyring", "Keyrings"),
      Count("bool", "SortedByName")>>
KeyTomeUnmarshal ==
    {Read(1, "int64", "Rev"), Collect(2, "Keyring", "Keyrings"),
     Read(3, "bool", "SortedByName")}
KeyTomeEqual ==
    {Same("Rev"), SameMsg("Keyring", "Keyrings"), Same("SortedByName")}

(* SigHeader *)

SigHeaderMarshal ==
    <<Put(8, "varint", "SignerCryptoKit"), Put(18, "bytes", "SignerPubKey"),
      Put(48, "varint", "HashKitID"), Put(56, "varint", "HeaderSz"),
      Put(64, "varint", "HeaderCodec"), Put(72, "varint", "BodySz")>>
\* SigHeaderSize without the field that was added last.
MutantSigHeaderSize ==
    <<Count("varint", "SignerCryptoKit"), Count("bytes", "SignerPubKey"),
      Count("varint", "HashKitID"), Count("varint", "HeaderSz"),
      Count("varint", "HeaderCodec")>>
SigHeaderSize ==
    <<Count("varint", "SignerCryptoKit"), Count("bytes", "SignerPubKey"),
      Count("varint", "HashKitID"), Count("varint", "HeaderSz"),
      Count("varint", "HeaderCodec"), Count("varint", "BodySz")>>
SigHeaderUnmarshal ==
    {Read(1, "int32", "SignerCryptoKit"), Read(2, "bytes", "SignerPubKey"),
     Read(6, "int32", "HashKitID"), Read(7, "uint32", "HeaderSz"),
     Read(8, "uint32", "HeaderCodec"), Read(9, "uint64", "BodySz")}
SigHeaderEqual ==
    {Same("SignerCryptoKit"), Same("SignerPubKey"), Same("HashKitID"),
     Same("HeaderSz"), Same("HeaderCodec"), Same("BodySz")}

(* KeyTomeCrypt *)

KeyTomeCryptMarshal ==
    <<Put(10, "bytes", "Tome"), Put(82, "KeyRef", "KeyRef"),
      Put(90, "KeyInfo", "KeyInfo")>>
KeyTomeCryptSize ==
    <<Count("bytes", "Tome"), Count("KeyRef", "KeyRef"),
      Count("KeyInfo", "KeyInfo")>>
KeyTomeCryptUnmarshal ==
    {Read(1, "bytes", "Tome"), Read(10, "KeyRef", "KeyRef"),
     Read(11, "KeyInfo", "KeyInfo")}
KeyTomeCryptEqual ==
    {Same("Tome"), SameMsg("KeyRef", "KeyRef"), SameMsg("KeyInfo", "KeyInfo")}

(* Err *)

ErrMarshal ==
    <<Put(8, "varint", "Code"), Put(18, "bytes", "Msg")>>
ErrSize ==
    <<Count("varint", "Code"), Count("bytes", "Msg")>>
ErrUnmarshal ==
    {Read(1, "int32", "Code"), Read(2, "bytes", "Msg")}
ErrEqual ==
    {Same("Code"), Same("Msg")}
=============================================================================
