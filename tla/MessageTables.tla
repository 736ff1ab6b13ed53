---------------------------- MODULE MessageTables ----------------------------
(***************************************************************************)
(* The rows of all generated messages, by the type of the message.         *)
(***************************************************************************)
EXTENDS SkiMessages, AvMessages

Marshals ==
    [CryptOpArgs |-> CryptOpArgsMarshal, CryptOpOut |-> CryptOpOutMarshal,
     KeyInfo |-> KeyInfoMarshal, KeyRef |-> KeyRefMarshal,
     KeyEntry |-> KeyEntryMarshal, Keyring |-> KeyringMarshal,
     KeyTome |-> KeyTomeMarshal, SigHeader |-> SigHeaderMarshal,
     KeyTomeCrypt |-> KeyTomeCryptMarshal, Err |-> ErrMarshal,
     LoginInfo |-> LoginInfoMarshal,
     LoginCreateResponse |-> LoginCreateResponseMarshal,
     CategoryInfo |-> CategoryInfoMarshal, StationInfo |-> StationInfoMarshal,
     MediaTrackInfo |-> MediaTrackInfoMarshal,
     MediaProviderInfo |-> MediaProviderInfoMarshal]

Sizes ==
    [CryptOpArgs |-> CryptOpArgsSize, CryptOpOut |-> CryptOpOutSize,
     KeyInfo |-> KeyInfoSize, KeyRef |-> KeyRefSize, KeyEntry |-> KeyEntrySize,
     Keyring |-> KeyringSize, KeyTome |-> KeyTomeSize,
     SigHeader |-> SigHeaderSize, KeyTomeCrypt |-> KeyTomeCryptSize,
     Err |-> ErrSize, LoginInfo |-> LoginInfoSize,
     LoginCreateResponse |-> LoginCreateResponseSize,
     CategoryInfo |-> CategoryInfoSize, StationInfo |-> StationInfoSize,
     MediaTrackInfo |-> MediaTrackInfoSize,
     MediaProviderInfo |-> MediaProviderInfoSize]

Unmarshals ==
    [CryptOpArgs |-> CryptOpArgsUnmarshal, CryptOpOut |-> CryptOpOutUnmarshal,
     KeyInfo |-> KeyInfoUnmarshal, KeyRef |-> KeyRefUnmarshal,
     KeyEntry |-> KeyEntryUnmarshal, Keyring |-> KeyringUnmarshal,
     KeyTome |-> KeyTomeUnmarshal, SigHeader |-> SigHeaderUnmarshal,
     KeyTomeCrypt |-> KeyTomeCryptUnmarshal, Err |-> ErrUnmarshal,
     LoginInfo |-> LoginInfoUnmarshal,
     LoginCreateResponse |-> LoginCreateResponseUnmarshal,
     CategoryInfo |-> CategoryInfoUnmarshal,
     StationInfo |-> StationInfoUnmarshal,
     MediaTrackInfo |-> MediaTrackInfoUnmarshal,
     MediaProviderInfo |-> MediaProviderInfoUnmarshal]

Equals ==
    [CryptOpArgs |-> CryptOpArgsEqual, CryptOpOut |-> CryptOpOutEqual,
     KeyInfo |-> KeyInfoEqual, KeyRef |-> KeyRefEqual,
     KeyEntry |-> KeyEntryEqual, Keyring |-> KeyringEqual,
     KeyTome |-> KeyTomeEqual, SigHeader |-> SigHeaderEqual,
     KeyTomeCrypt |-> KeyTomeCryptEqual, Err |-> ErrEqual,
     LoginInfo |-> LoginInfoEqual,
     LoginCreateResponse |-> LoginCreateResponseEqual,
     CategoryInfo |-> CategoryInfoEqual, StationInfo |-> StationInfoEqual,
     MediaTrackInfo |-> MediaTrackInfoEqual,
     MediaProviderInfo |-> MediaProviderInfoEqual]
==============================================================================
