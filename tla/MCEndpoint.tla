----------------------------- MODULE MCEndpoint -----------------------------
(* Instances of Endpoint for TLC. *)
EXTENDS Endpoint

CONSTANTS c1, c2,    \* the two clients
          MaxWork    \* bound on Work below

OneMisspelt == {9}
MCIdLen(p) == IF p = 8 THEN 9 ELSE 4
MCCleaned(n) == IF n = 3 THEN 1 ELSE n
NoNames == {8}
Known == {"workspace"}
MCGranted(c) == IF c = c1 THEN {"ai.read", "ai.invoke"} ELSE {"ai.read"}

Args == [content |-> 1, size |-> 2]
Template(method, form, body) ==
    [method |-> method, form |-> form, body |-> body, timeout |-> 2, skew |-> 0,
     sights |-> FALSE, args |-> Args]

Read(scopes) == [scopes |-> scopes, detail |-> "full"]
Complete(budget, sampling) ==
    [provider |-> 1, model |-> 1, messages |-> <<[role |-> "user", size |-> 2]>>, refs |-> <<1>>,
     tools |-> <<>>, sampling |-> sampling, budget |-> budget, timeout |-> 1]
Tool(tool, allowed) ==
    [tool |-> tool, level |-> "own", allowed |-> allowed, digest |-> Args.content]

ReadTemplates ==
    {Template("ai.context_read", "object", Read(<<1>>)), Template("ai.context_read", "object", Read(<<2, 1>>))}

InvokeTemplates ==
    {Template("ai.provider_complete", "object", Complete(2, "undeclared")),
     Template("ai.provider_complete", "object", Complete(1, "undeclared")),
     Template("ai.tool_dispatch", "object", Tool(1, {})),
     Template("ai.tool_dispatch", "object", Tool(1, {{2}})),
     [Template("ai.tool_dispatch", "object", Tool(1, {{1, 2}})) EXCEPT !.skew = 1, !.timeout = 1],
     [Template("ai.tool_dispatch", "object", Tool(2, {})) EXCEPT !.args.content = 2]}

OtherTemplates ==
    {Template("ai.model_select", "object", [required |-> <<"text">>, alias |-> {1}, window |-> {}, cost |-> {}]),
     Template("ai.model_fallback", "object", [error |-> "Timeout", detail |-> {}]),
     Template("ai.model_cost", "object", [in |-> 7, out |-> 1, inw |-> 0, outw |-> 2]),
     [Template("ai.provider_list", "no bytes", <<>>) EXCEPT !.timeout = 0],
     Template("ai.provider_list", "two correlators", <<>>),
     Template("ai.cache_hint", "object", [provider |-> 1, model |-> 1, scope |-> "turn", prefix |-> 2, ask |-> "round"]),
     Template("ai.mcp_pin", "no bytes", <<>>),
     [Template("ai.mcp_snapshot", "object", <<>>) EXCEPT !.sights = TRUE],
     Template("ai.mcp_snapshot", "trailing bytes", <<>>),
     Template("ai.extension_manifest", "object", [size |-> 3, points |-> <<"tool">>]),
     Template("ai.extension_contribute", "object", [size |-> 3, point |-> "hook"]),
     Template("ai.extension_activate", "object", [size |-> 3, point |-> "hook", enabled |-> <<1>>]),
     Template("ai.unknown", "object", <<>>)}

AllTemplates == ReadTemplates \cup InvokeTemplates \cup OtherTemplates

MCViews == {[provider |-> 1, echo |-> 1], [provider |-> 2, echo |-> 1], [provider |-> 1, echo |-> 2]}

Turn(latency, text, cs) == [error |-> "ok", latency |-> latency, text |-> text, calls |-> cs]
MCProviderReplies ==
    {Turn(1, 2, <<>>), Turn(2, 2, <<>>), Turn(1, 9, <<>>), Turn(1, 2, <<[size |-> 1, utf8 |-> FALSE]>>)}
    \cup {[error |-> e] : e \in ProviderErrors}

Done(summary, data, utf8) == [error |-> "ok", summary |-> summary, data |-> data, utf8 |-> utf8]
MCToolReplies ==
    {Done(1, 1, TRUE), Done(9, 1, TRUE), Done(1, 1, FALSE)}
    \cup {[error |-> e] : e \in ToolErrors}

Rec(id, owner, body) ==
    [id |-> id, provider |-> "workspace", owner |-> owner, at |-> 0, priority |-> 1,
     untrusted |-> FALSE, summary |-> 1, sumLen |-> 1, body |-> body, supersedes |-> {}]
Body(kind, content, size) == [kind |-> kind, content |-> content, size |-> size, ref |-> 0]
MCRecords ==
    {Rec(1, 1, Body("inline", 1, 2)), Rec(2, 1, Body("stored", 2, 3)), Rec(3, 2, Body("stored", 3, 3)),
     Rec(4, 1, Reference(1)), Rec(5, 2, Body("binary", 4, 1))}

MCTools == {[name |-> 1, description |-> 1, schema |-> [content |-> 1, size |-> 1], scope |-> "fs",
             readOnly |-> TRUE, placement |-> "native", native |-> "given"]}
MCRaws == {<<[name |-> 1, description |-> 1, schema |-> [content |-> 1, size |-> 1]]>>,
           <<[name |-> 3, description |-> 1, schema |-> [content |-> 2, size |-> 1]],
             [name |-> 2, description |-> 1, schema |-> [content |-> 1, size |-> 1]]>>,
           <<[name |-> 3, description |-> 1, schema |-> [content |-> 2, size |-> 1]],
             [name |-> 1, description |-> 1, schema |-> [content |-> 1, size |-> 1]]>>}
MCPins == {[version |-> "pinned", tools |-> FALSE]}
MCConsents == {[protocol |-> "native", tool |-> 1, scope |-> "fs"],
               [protocol |-> "native", tool |-> 1, scope |-> "net"]}
MCModels == {Registration(1, 1, <<"text">>, 8, 0, 1)}
MCAliases == {[alias |-> 1, candidates |-> <<ModelRef(1, 1)>>]}

Work == now + Cardinality(toolGrants) + Len(records) + revision
        + listing.version + generation - 1 + (IF listing.stale THEN 1 ELSE 0)

(* Each handler reads a view of its own, so the views move one at a time. *)
Moved == {v \in {"context", "tools", "listing", "models"} :
            CASE v = "context" -> records # <<>> \/ generation > 1
              [] v = "tools"   -> tools # <<>> \/ toolGrants # {}
              [] v = "listing" -> listing.version > 0 \/ listing.stale
              [] v = "models"  -> revision > 0}

(* One request in flight and one consent given at a time; the second client
   only reads context and is refused tools. *)
Bounded ==
    /\ Work <= MaxWork /\ Cardinality(consent) <= 1 /\ Cardinality(Moved) <= 1
    /\ calls[c1] = <<>> \/ calls[c2] = <<>>
    /\ calls[c2] # <<>> => calls[c2][1].method \in {"ai.context_read", "ai.tool_dispatch"}
=============================================================================
