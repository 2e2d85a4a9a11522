-------------------------- MODULE MCExternalStorer --------------------------
(***************************************************************************)
(* Instances of ExternalStorer for TLC: two log services, another resource *)
(* and documents with every kind of flaw.                                  *)
(***************************************************************************)
EXTENDS ExternalStorer

MCBaseDir == <<"run", "bmcweb">>
MCUuids == <<"u1", "u2", "u3", "u4", "u5", "u6", "u7">>

None == [kind |-> "missing", value |-> ""]
NoPath == [kind |-> "missing", value |-> Absolute(<<>>)]
Str(value) == [kind |-> "string", value |-> value]
NotStr(field) == [field EXCEPT !.kind = "other"]

Doc(json, type, odataId, id) ==
  [json |-> json, type |-> type, odataId |-> odataId, id |-> id]

LogEntryDoc == Doc("typed", {"LogEntry"}, NoPath, None)
Service(s) == Doc("typed", {"LogService"}, Str(ServicePath(s)), Str(s))
Other(path) == Doc("typed", {}, Str(path), None)

GoodDocuments == {LogEntryDoc, Service("s1"), Other(Absolute(<<"Memory">>))}

ServiceDocuments == GoodDocuments \cup {Service("s2")}

(* Documents that are refused, throw, name a place outside the root folder *)
(* or one by a detour, and a service at another place than its Id says.    *)
FlawedDocuments ==
  {Doc("unparsable", {}, NoPath, None), Doc("untyped", {}, NoPath, None),
   Doc("oddType", {}, NoPath, None),
   Doc("typed", {"LogService"}, Str(ServicePath("s1")), None),
   Doc("typed", {"LogService"}, NotStr(NoPath), Str("s3")),
   Doc("typed", {"LogService"}, Str(Absolute(<<"LogServices", "s2", "">>)),
       Str("s3")),
   Doc("typed", {"LogService"}, Str(ServicePath("s1")), NotStr(None)),
   Doc("typed", {"LogEntry", "LogService"}, NoPath, Str("s1")),
   Doc("typed", {}, NotStr(NoPath), None), Doc("typed", {}, NoPath, None),
   Other(Relative(<<"Memory", "..", "..", "x">>)),
   Other(Absolute(<<"..", "bmcweb", "Memory">>)),
   Other(Relative(<<"Memory", "..", "Memory", "">>))}

AllDocuments == ServiceDocuments \cup FlawedDocuments

-----------------------------------------------------------------------------
(* Every path of at most MaxParts parts, made of the parts of baseDir and  *)
(* another name.  An empty part comes last: it follows a trailing slash.   *)
CONSTANT MaxParts

PartsOf(n) ==
  {s \in [1 .. n -> {"run", "bmcweb", "a", ".", "..", ""}] :
     \A i \in 1 .. n - 1 : s[i] # ""}
MCPaths ==
  [absolute : BOOLEAN, parts : UNION {PartsOf(n) : n \in 0 .. MaxParts}]

=============================================================================
