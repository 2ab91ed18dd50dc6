----------------------------- MODULE HostTools ------------------------------
(***************************************************************************)
(* The host's side of tools (host/tool_dispatch.rs, host/mcp_placement.rs, *)
(* host/extension_registry.rs and host/snapshot.rs): the bounded registry  *)
(* of tool declarations, per-tool consent, per-call narrowing, the import  *)
(* of an MCP server's list with its digest snapshot, the protocol pin and  *)
(* the deny-all activation stub.                                           *)
(*                                                                         *)
(* A snapshot is the function from the sanitized names of a list to their  *)
(* digests: the list of an MCP server whose names collide once sanitized   *)
(* is refused before a snapshot is made of it.                             *)
(*                                                                         *)
(* Tool names are naturals; Cleaned gives the name that lowercasing and    *)
(* the replacement of foreign bytes leave of a raw one, so several raw     *)
(* names may share it.                                                     *)
(***************************************************************************)
EXTENDS Verdicts, FiniteSets, SequencesExt

CONSTANTS BadToolNames,      \* names outside the tool-name grammar
          Cleaned(_),        \* sanitized form of a raw tool name
          MaxTools,          \* MAX_TOOLS_PER_SESSION
          MaxSchema,         \* MAX_TOOL_SCHEMA_BYTES
          MaxDescription,    \* MAX_TOOL_DESCRIPTION_LEN
          MaxTime            \* u64::MAX of the clocks

VARIABLES tools,             \* ToolRegistry::specs
          listing            \* SnapshotEnvelope: digests, list_version, list_stale

ToolErrors ==
    {"InvalidName", "UnknownTool", "DuplicateTool", "ArgumentsTooLarge", "ResultTooLarge",
     "SummaryTooLarge", "CallLimitExceeded", "RegistryFull", "DescriptionTooLarge",
     "SchemaTooLarge", "UndeclaredPlacement", "Denied", "Failed", "ProtocolRejected",
     "EffectUnknown"}

GoodToolName(name) == name \notin BadToolNames

(* Native needs its detail, mcp refuses one, none is undeclared. *)
PlacementDeclared(spec) ==
    \/ spec.placement = "mcp" /\ spec.native = "none"
    \/ spec.placement = "native" /\ spec.native = "given"

SpecChecks(spec) ==
    << <<~GoodToolName(spec.name), "InvalidName">>,
       <<spec.description > MaxDescription, "DescriptionTooLarge">>,
       <<spec.schema.size > MaxSchema, "SchemaTooLarge">>,
       <<~PlacementDeclared(spec), "UndeclaredPlacement">> >>

Lookup(ts, name) == {i \in DOMAIN ts : ts[i].name = name}

RegisterToolVerdict(ts, spec) ==
    Verdict(<< <<Lookup(ts, spec.name) # {}, "DuplicateTool">> >>
            \o SpecChecks(spec)
            \o << <<Len(ts) >= MaxTools, "RegistryFull">> >>)

RegisterTool(spec) ==
    /\ RegisterToolVerdict(tools, spec) = "ok"
    /\ tools' = Append(tools, spec)
    /\ UNCHANGED listing

-----------------------------------------------------------------------------
(* Per-tool consent. *)

Later(a, b) == IF a + b > MaxTime THEN MaxTime ELSE a + b

ConsentGrantExpiry(now, ttl) == Later(now, ttl)

Covers(grant, protocol, tool, scope, now) ==
    /\ grant.protocol = protocol /\ grant.tool = tool /\ grant.scope = scope
    /\ now < grant.expires

NarrowingOmits(allowed, tool) == \E list \in allowed : tool \notin list

-----------------------------------------------------------------------------
(* The imported list and its snapshot. *)

SchemaDigest(schema) == schema.content

ImportVerdict(raw) == IF raw.schema.size > MaxSchema THEN "HandshakeRejected" ELSE "ok"

(* Read-only, placed mcp, the description cut to its bound. *)
ImportTool(raw) ==
    [name |-> Cleaned(raw.name), description |-> Min({raw.description, MaxDescription}),
     schema |-> raw.schema, scope |-> "mcp", readOnly |-> TRUE,
     placement |-> "mcp", native |-> "none"]

(* list_tools: two raw names that sanitize to one are refused. *)
Collides(raws) == \E i, j \in DOMAIN raws : i # j /\ Cleaned(raws[i].name) = Cleaned(raws[j].name)

FromImported(specs) ==
    [name \in {specs[i].name : i \in DOMAIN specs} |->
       SchemaDigest(specs[CHOOSE i \in DOMAIN specs : specs[i].name = name].schema)]

Names(snapshot) == DOMAIN snapshot

DigestOf(snapshot, name) == snapshot[name]

DiffToolSnapshots(old, new) ==
    [added   |-> Names(new) \ Names(old),
     removed |-> Names(old) \ Names(new),
     changed |-> {n \in Names(old) \cap Names(new) : DigestOf(old, n) # DigestOf(new, n)}]

\* Mutant: one version behind passes as current.
IsStaleLater(seen, current) == seen + 1 < current

IsStale(seen, current) == seen < current

(* check_snapshot_version: the sighting is optional. *)
SnapshotVerdict(seen, current) ==
    IF seen = {} THEN "MissingVersion"
    ELSE IF \E v \in seen : IsStale(v, current) THEN "StaleVersion" ELSE "ok"

(* The protocol pin: shape first, drift by comparison only. *)
PinVerdict(pin) ==
    IF pin.version # "pinned" THEN "VersionMismatch"
    ELSE IF ~pin.tools THEN "NoToolCapability" ELSE "ok"

-----------------------------------------------------------------------------
(* Extension points: declared, echoed and never activated. *)

ExtensionPoints == {"model", "tool", "context", "memory", "compactor", "agent", "command", "ui"}

(* parse_activation_point: {} when the name is none of the points. *)
ParseActivationPoint(name) == {point \in ExtensionPoints : point = name}

ActivationVerdict(name) == IF ParseActivationPoint(name) = {} THEN "UnknownPoint" ELSE "Denied"

-----------------------------------------------------------------------------
HostToolsInit == tools = <<>> /\ listing = [digests |-> <<>>, version |-> 0, stale |-> FALSE]

(* The MCP side re-lists and hands the host a fresh envelope. *)
Relist(raws) ==
    /\ \A i \in DOMAIN raws : ImportVerdict(raws[i]) = "ok"
    /\ ~Collides(raws)
    /\ listing' = [digests |-> FromImported([i \in DOMAIN raws |-> ImportTool(raws[i])]),
                   version |-> Later(listing.version, 1), stale |-> FALSE]
    /\ UNCHANGED tools

(* A list_changed signal: the flag, and a version of its own each time. *)
MarkStale ==
    /\ listing' = [listing EXCEPT !.stale = TRUE, !.version = Later(@, 1)]
    /\ UNCHANGED tools
=============================================================================
