------------------------------- MODULE Access -------------------------------
(***************************************************************************)
(* Requests on behalf of remote callers: Request::access says which role   *)
(* and which reach a request needs, op_as compares that with the caller's  *)
(* certificate and hands the request to the handler the local clients use, *)
(* which knows of no callers, and what comes back is filtered.             *)
(***************************************************************************)
EXTENDS Naturals, Sequences

CONSTANTS
    Callers,   \* certificates: a role, and the projects it is restricted to
    Projects,  \* names of projects, as the sequence of their parts between "__"
    LbNames,   \* names of load balancers, in the same form
    Names,     \* names of containers
    Volumes,   \* names of volumes, which are of no project
    ServerPath,\* stands for any path of the server that a spec may mount
    ImageNames,
    None

VARIABLES
    containers,  \* the project of each container, whether it runs, and what it mounts
    secrets, configs,  \* the projects that have one
    lbs,         \* Daemon.lbs: by key
    images,      \* name -> which image it is, None: there is none
    volumes,     \* volume -> the projects whose containers had it mounted
    node,        \* settings, trust and the controller's file: which of two versions
    by           \* ghost: the caller of the last request that changed something

state == <<containers, secrets, configs, lbs, images, volumes, node>>
vars == <<state, by>>
LocalCaller == [role |-> None, projects |-> {}]

Absent == [project |-> None, state |-> "absent", mounts |-> {}]
There(n) == containers[n] # Absent
Running(n) == containers[n].state = "running"

\* lb_key joins the project and the name by "__".
lb_key(p, n) == p \o n
Keys == {lb_key(p, n) : p \in Projects, n \in LbNames}
NoLb == [project |-> None, name |-> None]

-----------------------------------------------------------------------------
(* Request and Request::access                                             *)

FilteredVerbs == {"ps", "stats", "secret_list", "lb_list"}
TargetVerbs == {"logs", "wait", "start", "stop", "restart", "kill", "rm", "exec", "exec_probe",
                "commit"}
ProjectVerbs == {"run", "secret_ensure", "secret_reveal", "secret_set", "secret_remove",
                 "lb_set", "lb_remove", "config_put"}
OpenVerbs == {"info", "image_list", "image_show", "image_pull", "image_import"}
ImageVerbs == {"image_delete", "image_prune"}
AdminVerbs == {"init", "shutdown", "controller_set", "trust_token_create", "trust_token_list",
               "trust_token_revoke", "trust_list", "trust_remove", "trust_add_certificate"}
InternalVerbs == {"as", "trust_enroll", "trust_lookup"}
ReadVerbs == FilteredVerbs \cup {"logs", "wait", "info", "image_list", "image_show"}

Request ==
    [verb : FilteredVerbs \ {"lb_list"}, project : Projects \cup {None}]
        \cup [verb : {"lb_list"}, project : {None}]
        \cup [verb : TargetVerbs, target : Names, image : ImageNames]
        \cup [verb : {"run"}, project : Projects \cup {None}, name : Names,
              mounts : SUBSET (Volumes \cup {ServerPath})]
        \cup [verb : {"lb_set", "lb_remove"}, project : Projects, name : LbNames]
        \cup [verb : ProjectVerbs \ {"run", "lb_set", "lb_remove"}, project : Projects]
        \cup [verb : OpenVerbs \cup ImageVerbs, image : ImageNames]
        \cup [verb : AdminVerbs \cup InternalVerbs]

rank == [viewer |-> 0, operator |-> 1, admin |-> 2]

role(r) ==
    CASE r.verb \in ReadVerbs -> "viewer"
      [] r.verb \in AdminVerbs \cup InternalVerbs -> "admin"
      [] OTHER -> "operator"

\* Mutant: deleting images asks for a role only.
MutScope(r) ==
    CASE r.verb \in OpenVerbs \cup ImageVerbs -> "open"
      [] r.verb \in FilteredVerbs -> "filtered"
      [] r.verb \in TargetVerbs -> "target"
      [] r.verb \in ProjectVerbs -> "project"
      [] r.verb \in InternalVerbs -> "internal"
      [] OTHER -> "unrestricted"

scope(r) ==
    CASE r.verb \in OpenVerbs -> "open"
      [] r.verb \in FilteredVerbs -> "filtered"
      [] r.verb \in TargetVerbs -> "target"
      [] r.verb \in ProjectVerbs -> "project"
      [] r.verb \in InternalVerbs -> "internal"
      [] OTHER -> "unrestricted"

-----------------------------------------------------------------------------
(* authorize and filter_response                                           *)

restricted(c) == c.projects # {}
allows_project(c, p) == restricted(c) => p \in c.projects

authorize(c, r) ==
    /\ scope(r) # "internal" /\ rank[c.role] >= rank[role(r)]
    /\ CASE scope(r) = "project" -> allows_project(c, r.project)
         [] scope(r) = "filtered" -> r.project # None => allows_project(c, r.project)
         [] scope(r) = "target" -> restricted(c) =>
                There(r.target) /\ allows_project(c, containers[r.target].project)
         [] scope(r) = "unrestricted" -> ~restricted(c)
         [] OTHER -> TRUE

\* Whether filter_response is applied.
filtered(c, r) == scope(r) = "filtered" /\ r.project = None /\ restricted(c)

filter_response(items, c) == {x \in items : allows_project(c, x.project)}

-----------------------------------------------------------------------------
(* handle: what a request shows                                            *)

Matches(r, p) == r.project # None => p = r.project

\* What there is, as requests show it: containers, secrets, load balancers, and what the
\* containers of a project left in a volume.
Things ==
    {[kind |-> "container", project |-> containers[n].project, name |-> n] :
         n \in {m \in Names : There(m)}}
        \cup {[kind |-> "secret", project |-> p] : p \in secrets}
        \cup {[kind |-> "lb", project |-> lbs[k].project, key |-> k] : k \in {j \in Keys : lbs[j] # NoLb}}
        \cup {x \in [kind : {"volume"}, project : Projects \cup {None}, name : Volumes] :
                x.project \in volumes[x.name]}

\* What a program in the container reaches through its mounts, and may print or answer.
Reached(n) ==
    {x \in Things : \/ ServerPath \in containers[n].mounts
                    \/ x.kind = "volume" /\ x.name \in containers[n].mounts}

InsideVerbs == {"logs", "exec", "exec_probe"}

listed(r) ==
    CASE r.verb = "ps" ->
           {[kind |-> "container", project |-> containers[n].project, name |-> n] :
                n \in {m \in Names : There(m) /\ Matches(r, containers[m].project)}}
      [] r.verb = "stats" ->
           {[kind |-> "container", project |-> containers[n].project, name |-> n] :
                n \in {m \in Names : Running(m) /\ Matches(r, containers[m].project)}}
      [] r.verb = "secret_list" ->
           {[kind |-> "secret", project |-> p] : p \in {q \in secrets : Matches(r, q)}}
      [] r.verb = "lb_list" ->
           {[kind |-> "lb", project |-> lbs[k].project, key |-> k] :
                k \in {j \in Keys : lbs[j] # NoLb}}
      [] r.verb = "secret_reveal" ->
           {[kind |-> "secret", project |-> p] : p \in {q \in secrets : q = r.project}}
      [] r.verb \in InsideVerbs \cup {"wait"} /\ There(r.target) ->
           {[kind |-> "container", project |-> containers[r.target].project, name |-> r.target]}
              \cup {x \in Reached(r.target) : r.verb \in InsideVerbs}
      [] OTHER -> {}

reply(c, r) == IF filtered(c, r) THEN filter_response(listed(r), c) ELSE listed(r)

-----------------------------------------------------------------------------
(* handle: what a request changes.  A request that fails changes nothing.  *)

Set(n, x) ==
    containers' = [containers EXCEPT ![n] = x] /\ UNCHANGED <<secrets, configs, lbs, images, node>>

\* Any path and any volume can be mounted; a volume is made when it is not there.
Run(r) ==
    /\ r.verb = "run" /\ ~There(r.name)
    /\ Set(r.name, [project |-> r.project, state |-> "running", mounts |-> r.mounts])
    /\ volumes' = [v \in Volumes |-> IF v \in r.mounts THEN volumes[v] \cup {r.project}
                                      ELSE volumes[v]]

Start(r) ==
    /\ r.verb \in {"start", "restart"} /\ There(r.target) /\ ~Running(r.target)
    /\ Set(r.target, [containers[r.target] EXCEPT !.state = "running"]) /\ UNCHANGED volumes

\* The container ends of it; whether it is then removed is the lifecycle's.
Stop(r) ==
    /\ r.verb \in {"stop", "kill"} /\ Running(r.target)
    /\ Set(r.target, [containers[r.target] EXCEPT !.state = "stopped"]) /\ UNCHANGED volumes

\* The volumes it mounted stay.
Rm(r) == r.verb = "rm" /\ There(r.target) /\ Set(r.target, Absent) /\ UNCHANGED volumes

Secret(r) ==
    /\ \/ r.verb \in {"secret_ensure", "secret_set"} /\ secrets' = secrets \cup {r.project}
       \/ r.verb = "secret_remove" /\ secrets' = secrets \ {r.project}
    /\ UNCHANGED <<containers, configs, lbs, images, volumes, node>>

op_config_put(r) ==
    /\ r.verb = "config_put" /\ configs' = configs \cup {r.project}
    /\ UNCHANGED <<containers, secrets, lbs, images, volumes, node>>

Lb(r) ==
    /\ LET k == lb_key(r.project, r.name) IN
       \/ r.verb = "lb_set" /\ lbs' = [lbs EXCEPT ![k] = [project |-> r.project, name |-> r.name]]
       \/ r.verb = "lb_remove" /\ lbs[k] # NoLb /\ lbs' = [lbs EXCEPT ![k] = NoLb]
    /\ UNCHANGED <<containers, secrets, configs, images, volumes, node>>

\* Images are of no project: what is pulled, imported or committed takes the place of
\* what had its name.  Two versions are enough to see that.
Version == {1, 2}

Image(r) ==
    /\ \/ /\ r.verb \in {"image_pull", "image_import"} \/ (r.verb = "commit" /\ There(r.target))
          /\ \E v \in Version : images' = [images EXCEPT ![r.image] = v]
       \/ r.verb = "image_delete" /\ images' = [images EXCEPT ![r.image] = None]
       \/ /\ r.verb = "image_prune"
          /\ \E gone \in SUBSET ImageNames :
                images' = [i \in ImageNames |-> IF i \in gone THEN None ELSE images[i]]
    /\ UNCHANGED <<containers, secrets, configs, lbs, volumes, node>>

\* op_init, op_controller_set, handle_trust, but for the lists.
Admin(r) ==
    /\ r.verb \in AdminVerbs \ {"trust_list", "trust_token_list"} /\ node' = ~node
    /\ UNCHANGED <<containers, secrets, configs, lbs, images, volumes>>

handle(r) ==
    \/ Run(r) \/ Start(r) \/ Stop(r) \/ Rm(r) \/ Secret(r) \/ op_config_put(r) \/ Lb(r)
    \/ Image(r) \/ Admin(r)

\* Only the gateway, which is root, may act for a caller.
op_as(c, r) == authorize(c, r) /\ handle(r) /\ by' = c

\* A program writes to the server's files through a mounted path: secrets,
\* configurations and images are files there.  No request is part of it.
ThroughPath(n) ==
    /\ Running(n) /\ ServerPath \in containers[n].mounts
    /\ secrets' \in SUBSET Projects /\ configs' \in SUBSET Projects
    /\ images' \in [ImageNames -> Version \cup {None}]
    /\ by' = LocalCaller
    /\ UNCHANGED <<containers, lbs, volumes, node>>

-----------------------------------------------------------------------------

Init ==
    /\ containers = [n \in Names |-> Absent]
    /\ secrets = {} /\ configs = {} /\ lbs = [k \in Keys |-> NoLb]
    /\ images = [i \in ImageNames |-> None] /\ volumes = [v \in Volumes |-> {}]
    /\ node = FALSE /\ by = LocalCaller

\* Requests of local clients are not authorized.
Next ==
    \/ \E r \in Request :
          \/ handle(r) /\ by' = LocalCaller
          \/ \E c \in Callers : op_as(c, r)
    \/ \E n \in Names : ThroughPath(n)

Spec == Init /\ [][Next]_vars

-----------------------------------------------------------------------------
(* Correctness.                                                            *)

\* What a project has, load balancers aside.
Holding(p) ==
    <<[n \in Names |-> IF containers[n].project = p THEN containers[n] ELSE Absent],
      p \in secrets, p \in configs, {v \in Volumes : p \in volumes[v]}>>

Changed == {p \in Projects \cup {None} : Holding(p) # Holding(p)'}

Foreign(c) == {x \in Things : x.project \notin c.projects}

\* No request shows a restricted certificate anything of another project, but for what
\* one of its own containers reaches through its mounts: run takes any path of the server
\* and any volume, whoever asks.
ShowsOwn ==
    \A c \in Callers : restricted(c) =>
        \A x \in Foreign(c) : \A r \in Request :
            authorize(c, r) /\ x \in reply(c, r) =>
                r.verb \in InsideVerbs /\ x \in Reached(r.target)

\* A request of a restricted certificate changes containers, secrets and configs of its
\* own projects only, and leaves no image name without an image, although it may put
\* another image under it; a viewer's changes nothing.  The handler is the one for local
\* clients, so all of it rests on op_as.
Confined ==
    [][state' # state =>
          /\ by'.role # "viewer"
          /\ restricted(by') =>
                /\ Changed \subseteq by'.projects /\ node' = node
                /\ \A i \in ImageNames : images[i] # None => images'[i] # None]_vars

\* A request of a restricted certificate shows and changes what is of its projects
\* only.  It says nothing of the programs that the certificate may run: what they
\* read and write through their mounts is not bound to a project.
Isolated == []ShowsOwn /\ Confined

\* "only sees and touches containers, secrets, configs and load balancers of those
\* projects": a load balancer of one project is not replaced by that of another.
LbsConfined ==
    [][\A k \in Keys : lbs[k] # NoLb /\ lbs[k]' # NoLb => lbs[k]'.project = lbs[k].project]_lbs
=============================================================================
