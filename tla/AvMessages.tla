----------------------------- MODULE AvMessages -----------------------------
(***************************************************************************)
(* The messages of the media apps:                                         *)
(* what the generated functions of src/amp/apps/amp.app.av/av/av.pb.go     *)
(* do with which field, in the meaning that WireFormat and ProtoWire give  *)
(* these lists.                                                            *)
(***************************************************************************)
EXTENDS Naturals, MessageRows

(* LoginInfo *)

LoginInfoMarshal ==
    <<Put(10, "bytes", "UserID"), Put(18, "bytes", "Pass"),
      Put(26, "bytes", "TokenValue"), Put(32, "varint", "TokenExpires")>>
LoginInfoSize ==
    <<Count("bytes", "UserID"), Count("bytes", "Pass"),
      Count("bytes", "TokenValue"), Count("varint", "TokenExpires")>>
LoginInfoUnmarshal ==
    {Read(1, "bytes", "UserID"), Read(2, "bytes", "Pass"),
     Read(3, "bytes", "TokenValue"), Read(4, "int64", "TokenExpires")}
LoginInfoEqual ==
    {Same("UserID"), Same("Pass"), Same("TokenValue"), Same("TokenExpires")}

(* LoginCreateResponse *)

LoginCreateResponseMarshal ==
    <<Put(10, "bytes", "TimestampExpires"), Put(18, "bytes", "Token"),
      Put(26, "bytes", "ChatStatus"), Put(32, "varint", "ChatVersion")>>
LoginCreateResponseSize ==
    <<Count("bytes", "TimestampExpires"), Count("bytes", "Token"),
      Count("bytes", "ChatStatus"), Count("varint", "ChatVersion")>>
LoginCreateResponseUnmarshal ==
    {Read(1, "bytes", "TimestampExpires"), Read(2, "bytes", "Token"),
     Read(3, "bytes", "ChatStatus"), Read(4, "int64", "ChatVersion")}
LoginCreateResponseEqual ==
    {Same("TimestampExpires"), Same("Token"), Same("ChatStatus"),
     Same("ChatVersion")}

(* CategoryInfo *)

CategoryInfoMarshal ==
    <<Put(8, "varint", "Id"), Put(18, "bytes", "Category"),
      Put(26, "bytes", "Title"), Put(34, "bytes", "Description"),
      Put(42, "bytes", "Type"), Put(50, "bytes", "Subtype"),
      Put(58, "bytes", "Image"), Put(66, "bytes", "TimestampCreated"),
      Put(74, "bytes", "TimestampModified")>>
CategoryInfoSize ==
    <<Count("varint", "Id"), Count("bytes", "Category"),
      Count("bytes", "Title"), Count("bytes", "Description"),
      Count("bytes", "Type"), Count("bytes", "Subtype"),
      Count("bytes", "Image"), Count("bytes", "TimestampCreated"),
      Count("bytes", "TimestampModified")>>
CategoryInfoUnmarshal ==
    {Read(1, "uint32", "Id"), Read(2, "bytes", "Category"),
     Read(3, "bytes", "Title"), Read(4, "bytes", "Description"),
     Read(5, "bytes", "Type"), Read(6, "bytes", "Subtype"),
     Read(7, "bytes", "Image"), Read(8, "bytes", "TimestampCreated"),
     Read(9, "bytes", "TimestampModified")}
CategoryInfoEqual ==
    {Same("Id"), Same("Category"), Same("Title"), Same("Description"),
     Same("Type"), Same("Subtype"), Same("Image"), Same("TimestampCreated"),
     Same("TimestampModified")}

(* StationInfo *)

StationInfoMarshal ==
    <<Put(8, "varint", "Id"), Put(18, "bytes", "Category"),
      Put(26, "bytes", "Title"), Put(34, "bytes", "Description"),
      Put(42, "bytes", "Type"), Put(50, "bytes", "Subtype"),
      Put(58, "bytes", "Image"), Put(66, "bytes", "Author"),
      Put(74, "bytes", "Url"), Put(82, "bytes", "Summary")>>
StationInfoSize ==
    <<Count("varint", "Id"), Count("bytes", "Category"),
      Count("bytes", "Title"), Count("bytes", "Description"),
      Count("bytes", "Type"), Count("bytes", "Subtype"),
      Count("bytes", "Image"), Count("bytes", "Author"),
      Count("bytes", "Url"), Count("bytes", "Summary")>>
StationInfoUnmarshal ==
    {Read(1, "uint32", "Id"), Read(2, "bytes", "Category"),
     Read(3, "bytes", "Title"), Read(4, "bytes", "Description"),
     Read(5, "bytes", "Type"), Read(6, "bytes", "Subtype"),
     Read(7, "bytes", "Image"), Read(8, "bytes", "Author"),
     Read(9, "bytes", "Url"), Read(10, "bytes", "Summary")}
StationInfoEqual ==
    {Same("Id"), Same("Category"), Same("Title"), Same("Description"),
     Same("Type"), Same("Subtype"), Same("Image"), Same("Author"),
     Same("Url"), Same("Summary")}

(* MediaTrackInfo *)

MediaTrackInfoMarshal ==
    <<Put(8, "varint", "Flags"), Put(85, "fixed32", "Ordering"),
      Put(89, "fixed64", "Seconds"), Put(101, "fixed32", "Popularity"),
      Put(112, "varint", "ReleaseDate")>>
MediaTrackInfoSize ==
    <<Count("varint", "Flags"), Count("fixed32", "Ordering"),
      Count("fixed64", "Seconds"), Count("fixed32", "Popularity"),
      Count("varint", "ReleaseDate")>>
MediaTrackInfoUnmarshal ==
    {Read(1, "int32", "Flags"), Read(10, "fixed32", "Ordering"),
     Read(11, "fixed64", "Seconds"), Read(12, "fixed32", "Popularity"),
     Read(14, "int64", "ReleaseDate")}
MediaTrackInfoEqual ==
    {Same("Flags"), Same("Ordering"), Same("Seconds"), Same("Popularity"),
     Same("ReleaseDate")}

(* MediaProviderInfo *)

MediaProviderInfoMarshal ==
    <<Put(10, "bytes", "CommonName"), Put(16, "bool", "RequiresSubscription"),
      Put(24, "bool", "RequiresInternet")>>
MediaProviderInfoSize ==
    <<Count("bytes", "CommonName"), Count("bool", "RequiresSubscription"),
      Count("bool", "RequiresInternet")>>
MediaProviderInfoUnmarshal ==
    {Read(1, "bytes", "CommonName"), Read(2, "bool", "RequiresSubscription"),
     Read(3, "bool", "RequiresInternet")}
MediaProviderInfoEqual ==
    {Same("CommonName"), Same("RequiresSubscription"),
     Same("RequiresInternet")}
=============================================================================
