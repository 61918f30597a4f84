------------------------------- MODULE Authoring -------------------------------
(***************************************************************************)
(* What members write for automation: workflow drafts, published templates,*)
(* personal workflow presets and projects (workflows/drafts.ts, templates, *)
(* projects/project-registry.ts).                                          *)
(*                                                                         *)
(* A client has read what there is, composes one request with a key of its *)
(* own choosing, and sends it until it has an answer, perhaps twice at     *)
(* once.  The registries remember the key with the request and the answer. *)
(* Drafts, templates and presets share one table of keys; a project's key  *)
(* is its member's own.  What is written is a line of revisions; the       *)
(* content of a revision is who wrote it.                                  *)
(***************************************************************************)
EXTENDS Naturals, Sequences

CONSTANTS
    Clients, Keys,
    MaxSent,            \* executions of one request
    None

Revised == {"DRAFT", "RUN_TEMPLATE", "WORKFLOW_TEMPLATE"}
Lines == Revised \cup {"PRESET"}
Operations == Lines \cup {"COPY", "PROJECT"}

VARIABLES
    workload,
    offered,            \* run preset versions that resolve; not of this component
    member,             \* who may write: an active member, for projects an owner
    line,               \* the revisions of each kind: [by, seen, bound]
    copies, projects,   \* sequences of who made them; a project notes `owner'
    write, projectWrite,\* template_registry_writes, idempotency_results
    request, sent,      \* what each client composed, and how often it was sent
    underWay,           \* executions of it that await something
    answer              \* the last answer to it

written == <<line, copies, projects, write, projectWrite>>
clients == <<request, sent, underWay, answer>>
vars == <<workload, member, written, clients>>

TypeOK ==
    /\ member \subseteq Clients
    /\ \A k \in Lines : \A n \in DOMAIN line[k] : line[k][n].by \in Clients
    /\ \A c \in Clients :
         /\ request[c] # None => request[c].op \in Operations /\ request[c].key \in Keys
         /\ sent[c] \in 0 .. MaxSent /\ Len(underWay[c]) <= sent[c]

Init ==
    /\ member = Clients
    /\ line = [k \in Lines |-> <<>>] /\ copies = <<>> /\ projects = <<>>
    /\ write = [k \in Keys |-> None] /\ projectWrite = [c \in Clients |-> None]
    /\ request = [c \in Clients |-> None] /\ sent = [c \in Clients |-> 0]
    /\ underWay = [c \in Clients |-> <<>>] /\ answer = [c \in Clients |-> "NONE"]

-------------------------------------------------------------------------------
\* The client has seen the last revision there is, and will write the next.
Compose(c) ==
    /\ request[c] = None
    /\ \E op \in Operations \cap workload, key \in Keys :
         \E bound \in IF op = "PRESET" THEN offered ELSE {None} :
            request' = [request EXCEPT ![c] =
                [by |-> c, op |-> op, key |-> key, bound |-> bound,
                 base |-> IF op \in Lines THEN Len(line[op]) ELSE 0]]
    /\ UNCHANGED <<workload, member, written, sent, underWay, answer>>

\* Removal, the loss of a role, the end of the session.
LoseAuthority(c) ==
    /\ "REMOVE" \in workload /\ c \in member
    /\ member' = member \ {c}
    /\ UNCHANGED <<workload, written, clients>>

Sends(c, op) ==
    /\ request[c] # None /\ request[c].op = op /\ sent[c] < MaxSent
    /\ sent' = [sent EXCEPT ![c] = @ + 1]
Answer(c, a) == answer' = [answer EXCEPT ![c] = a]
Refuse(c, why) == Answer(c, why) /\ UNCHANGED written

\* Slip: the first answer is given to whoever comes with the key.
ReplayToAnyone(row, digest) == row.result

\* replay: the first answer again, if it was to the same request.
Replay(row, digest) == IF row.digest = digest THEN row.result ELSE "REUSED"

Remember(c) ==
    write' = [write EXCEPT ![request[c].key] = [digest |-> request[c], result |-> "OK"]]

NextOf(kind, c) ==
    line' = [line EXCEPT ![kind] =
        Append(@, [by |-> c, seen |-> request[c].base, bound |-> request[c].bound])]

Expected(kind, base) == Len(line[kind]) = base

\* save of a draft, publishRunTemplate, publishWorkflowTemplate.
Revise(c, kind) ==
    /\ Sends(c, kind) /\ UNCHANGED <<workload, member, request, underWay>>
    /\ LET row == write[request[c].key] IN
       CASE row # None -> Refuse(c, Replay(row, request[c]))
         [] row = None /\ kind # "DRAFT" /\ c \notin member -> Refuse(c, "FORBIDDEN")
         [] row = None /\ (kind # "DRAFT" => c \in member) ->
              IF Expected(kind, request[c].base)
              THEN /\ NextOf(kind, c) /\ Remember(c) /\ Answer(c, "OK")
                   /\ UNCHANGED <<copies, projects, projectWrite>>
              ELSE Refuse(c, "STALE")

\* duplicate: a draft of its own, with the content of the last revision.
Duplicate(c) ==
    /\ Sends(c, "COPY") /\ UNCHANGED <<workload, member, request, underWay>>
    /\ LET row == write[request[c].key] IN
       IF row # None THEN Refuse(c, Replay(row, request[c]))
       ELSE IF line["DRAFT"] = <<>> THEN Refuse(c, "NOT_FOUND")
       ELSE /\ copies' = Append(copies, c) /\ Remember(c) /\ Answer(c, "OK")
            /\ UNCHANGED <<line, projects, projectWrite>>

-------------------------------------------------------------------------------
Await(c) == underWay' = [underWay EXCEPT ![c] = Append(@, "RESOLVE")]
Resumes(c) ==
    /\ underWay[c] # <<>>
    /\ underWay' = [underWay EXCEPT ![c] = Tail(@)]
    /\ UNCHANGED <<workload, member, request, sent>>

\* bind, up to the resolution of its run presets, which is awaited.
BeginBind(c) ==
    /\ Sends(c, "PRESET") /\ UNCHANGED <<workload, member, request>>
    /\ LET row == write[request[c].key] IN
       CASE row # None -> Refuse(c, Replay(row, request[c])) /\ UNCHANGED underWay
         [] row = None /\ request[c].bound \notin offered ->
              Refuse(c, "UNBOUND") /\ UNCHANGED underWay
         [] row = None /\ request[c].bound \in offered -> Await(c) /\ UNCHANGED <<written, answer>>

\* The rest of it.  The key is not looked up again: a second execution finds the
\* version there, and another request's key aborts the transaction.
CommitBind(c) ==
    /\ request[c] # None /\ request[c].op = "PRESET" /\ Resumes(c)
    /\ IF ~Expected("PRESET", request[c].base) THEN Refuse(c, "STALE")
       ELSE IF write[request[c].key] # None THEN UNCHANGED <<written, answer>>
       ELSE /\ NextOf("PRESET", c) /\ Remember(c) /\ Answer(c, "OK")
            /\ UNCHANGED <<copies, projects, projectWrite>>

\* create of a project, up to the digest of its input.
BeginProject(c) ==
    /\ Sends(c, "PROJECT") /\ UNCHANGED <<workload, member, request>>
    /\ IF c \in member THEN Await(c) /\ UNCHANGED <<written, answer>>
       ELSE Refuse(c, "FORBIDDEN") /\ UNCHANGED underWay

StillOwner(c) == c \in member

CommitProject(c) ==
    /\ request[c] # None /\ request[c].op = "PROJECT" /\ Resumes(c)
    /\ IF projectWrite[c] # None THEN Refuse(c, Replay(projectWrite[c], request[c]))
       ELSE IF ~StillOwner(c) THEN Refuse(c, "FORBIDDEN")
       ELSE /\ projects' = Append(projects, [by |-> c, owner |-> c \in member])
            /\ projectWrite' = [projectWrite EXCEPT ![c] = [digest |-> request[c], result |-> "OK"]]
            /\ Answer(c, "OK")
            /\ UNCHANGED <<line, copies, write>>

Next ==
    \E c \in Clients :
       \/ Compose(c) \/ LoseAuthority(c)
       \/ \E kind \in Revised : Revise(c, kind)
       \/ Duplicate(c)
       \/ BeginBind(c) \/ CommitBind(c)
       \/ BeginProject(c) \/ CommitProject(c)

-------------------------------------------------------------------------------
\* What came of the requests of these clients.
Effects(C) ==
    (UNION {{<<k, n>> : n \in {i \in DOMAIN line[k] : line[k][i].by \in C}} : k \in Lines})
    \cup {<<"COPY", n>> : n \in {i \in DOMAIN copies : copies[i] \in C}}
    \cup {<<"PROJECT", n>> : n \in {i \in DOMAIN projects : projects[i].by \in C}}

\* However often and however concurrently a request is sent, it has one effect at
\* most, and has had it if the client is told so; a key that two requests name has
\* one effect too, except that each member's projects have keys of their own.
OneEffect ==
    /\ \A c \in Clients :
         /\ \A e, f \in Effects({c}) : e = f
         /\ answer[c] = "OK" => Effects({c}) # {}
    /\ \A key \in Keys :
         LET C == {c \in Clients : request[c] # None /\ request[c].key = key
                                                     /\ request[c].op # "PROJECT"}
         IN  \A e, f \in Effects(C) : e = f

\* Nobody writes over a revision they have not seen, and whoever lost ownership
\* while their project was on its way creates none.
NoLostUpdate ==
    /\ \A k \in Lines : \A n \in DOMAIN line[k] : line[k][n].seen = n - 1
    /\ \A i \in DOMAIN projects : projects[i].owner
================================================================================
