------------------------------ MODULE MCTranspb ------------------------------
(***************************************************************************)
(* Transpb for TLC, with messages of src/proto: main.proto with the        *)
(* sub.proto it imports, parts of rs.proto and cs.proto, and one message   *)
(* with a map and an array of numbers that is not packed, of which         *)
(* src/proto has none.                                                     *)
(***************************************************************************)
EXTENDS Transpb

Optional(name, type) == [name |-> name, type |-> type, option |-> "optional"]
Repeated(name, type) == [name |-> name, type |-> type, option |-> "repeated"]
Packed(name, type)   == [name |-> name, type |-> type, option |-> "packed"]

MainProto == {"AddressBook", "Person", "PhoneNumber", "PhoneType"}
RsProto   == {"GateInfoNtf", "GsInfo"}
CsProto   == {"StopRsRankAck", "ErrorCode"}
MapProto  == {"Tagged", "TagsEntry"}

RepoDefines ==
  "main" :> MainProto @@ "rs" :> RsProto @@ "cs" :> CsProto @@ "map" :> MapProto

\* With the message of rs.proto that has a message field of its own.
NestedDefines == "rs" :> (RsProto \cup {"GsOnlineNtf"})

RepoKind ==
  [t \in MainProto \cup RsProto \cup CsProto \cup MapProto \cup {"GsOnlineNtf"} |->
     IF t \in {"PhoneType", "ErrorCode"} THEN "enum"
     ELSE IF t = "TagsEntry" THEN "map" ELSE "message"]

RepoFields ==
  [t \in DOMAIN RepoKind |->
     CASE t = "AddressBook"   -> <<Repeated("person", "Person")>>
       [] t = "Person"        -> <<Optional("id", "int32"), Repeated("phone", "PhoneNumber")>>
       [] t = "PhoneNumber"   -> <<Optional("number", "string"), Optional("type", "PhoneType")>>
       [] t = "GateInfoNtf"   -> <<Repeated("gss", "GsInfo"), Optional("server_id", "uint32")>>
       [] t = "GsInfo"        -> <<Optional("app_id", "string"), Optional("gs_sid", "uint64")>>
       [] t = "GsOnlineNtf"   -> <<Optional("gs", "GsInfo")>>
       [] t = "StopRsRankAck" -> <<Optional("error_code", "ErrorCode"),
                                   Packed("template_ids", "uint32")>>
       [] t = "Tagged"        -> <<Optional("tags", "TagsEntry"), Repeated("names", "string"),
                                   Repeated("counts", "int32"), Optional("set", "bool")>>
       [] OTHER               -> <<>>]

\* PhoneType's numbers, and for ErrorCode some with a gap, as proto allows.
RepoEnumValues == "PhoneType" :> 0..2 @@ "ErrorCode" :> {0, 1, 5}
=============================================================================
