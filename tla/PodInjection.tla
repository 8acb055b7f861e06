----------------------------- MODULE PodInjection -----------------------------
(***************************************************************************)
(* The operator's pod webhook: what it does to a pod that asks for the     *)
(* sidecar, and which rules that sidecar then runs on.  The policy, its    *)
(* ConfigMap and the pods change while a request is handled: the webhook   *)
(* reads the policy first and whether its file is rendered last, and the   *)
(* kubelet mounts the ConfigMap long after.                                *)
(*                                                                         *)
(* Rules are a number, 0 when the policy sets no rule field.  Salt, fail   *)
(* policy, resources, images and security contexts are copied as they are  *)
(* and left out.                                                           *)
(***************************************************************************)
EXTENDS Naturals, Sequences, SequencesExt, FiniteSets

CONSTANTS
    Text,        \* names of containers, volumes and variables, and commands
    Pods,        \* names of pods
    Policies,    \* what a policy may say
    Templates,   \* the pods that are created, as their owner writes them
    MaxPolicies, \* bound: creations, edits and deletions of the policy
    MaxUpdates,  \* bound: updates of the pods' metadata
    Setups,      \* how the chart installs the webhook: strictMode, failurePolicy
                 \* Fail, LEGACY_SIDECAR_MODE
    None,        \* no policy, no pod, no request, no file
    NotMounted,  \* the kubelet has not mounted the pod's volumes yet
    BuiltIn      \* the scanner's own rules

\* What the webhook and the controller read of a policy; which object it is,
\* and what the ConfigMap says.
PolicyType ==
    [mode : {"", "file", "pipe", "ebpf", "unknown"}, audit : BOOLEAN, stats : BOOLEAN,
     command : BOOLEAN, rules : Nat, uid : Nat]
ConfigMapType == [rules : Nat, owner : Nat]

\* What the webhook reads and changes of a pod.
ContainerType ==
    [name : Text, command : Text, mounts : Seq(Text), env : [rules : Nat, names : SUBSET Text]]
PodType ==
    [inject : BOOLEAN, target : {None} \cup Text, containers : Seq(ContainerType),
     inits : Seq(ContainerType), volumes : Seq(Text), sharedPids : BOOLEAN]

\* The pod's containers in the order in which they start, and the places in it
\* of those with the sidecar's name.
AllContainers(pod) == pod.inits \o pod.containers
SidecarsOf(pod) == {i \in DOMAIN AllContainers(pod) : AllContainers(pod)[i].name = "pii-shield-sidecar"}

\* The volumes the webhook adds.
WebhookVolumes == {"pii-shared", "pii-pipe-dir", "pii-tmp", "pii-policy"}

ASSUME TextAssumption ==
    /\ WebhookVolumes \subseteq Text
    /\ {"pii-shield-sidecar", "/pii-shield", "/pii-shield-ebpf", "pii-mkfifo", "mkfifo", "to the pipe",
        "PII_MODE", "PII_METRICS_PORT", "PII_STATS_LOG_INTERVAL", "PII_CONFIG_FILE"} \subseteq Text

ASSUME FlagsAssumption ==
    /\ Setups \subseteq [strict : BOOLEAN, failClosed : BOOLEAN, legacy : BOOLEAN]
    /\ Policies \subseteq PolicyType
    /\ MaxPolicies \in Nat /\ MaxUpdates \in Nat

ASSUME ValuesAssumption ==
    /\ None \notin Nat /\ NotMounted \notin Nat /\ BuiltIn \notin Nat
    /\ None # NotMounted /\ None # BuiltIn
    /\ None \notin ConfigMapType /\ None \notin PodType

\* The API server takes an owner's pod only if its volumes have distinct names
\* and every mount is of one of them; and an owner leaves the webhook's names
\* to the webhook (the injected pod would have two of a name otherwise, and be
\* refused).
ASSUME TemplatesAssumption ==
    /\ Templates \subseteq PodType
    /\ \A t \in Templates :
          /\ SidecarsOf(t) = {}
          /\ IsInjective(t.volumes) /\ ToSet(t.volumes) \cap WebhookVolumes = {}
          /\ \A c \in ToSet(AllContainers(t)) : ToSet(c.mounts) \subseteq ToSet(t.volumes)

VARIABLES
    setup,      \* the values of the chart
    policy,     \* the policy the pods name, or None
    configMap,  \* its ConfigMap with the policy that owns it, or None
    changes,    \* changes of the policy so far
    pods,       \* the pods the API server holds
    request,    \* the admission request about a pod
    answer,     \* how a pod was admitted: "plain", "warned" or "bypassed"
    asked,      \* the rules of the policy a pod was admitted under
    deleted,    \* pods whose ConfigMap was deleted since the webhook read it
    file,       \* the rules the kubelet has mounted for a pod, or None
    rules,      \* the rules the pod's sidecar runs on
    updates     \* updates of pods so far

ghosts == <<answer, asked, deleted>>
vars == <<setup, policy, configMap, changes, pods, request, ghosts, file, rules, updates>>

Init ==
    /\ setup \in Setups
    /\ policy = None /\ configMap = None /\ changes = 0 /\ updates = 0
    /\ pods = [p \in Pods |-> None]
    /\ request = [p \in Pods |-> None]
    /\ answer = [p \in Pods |-> "plain"]
    /\ asked = [p \in Pods |-> 0]
    /\ deleted = {}
    /\ file = [p \in Pods |-> NotMounted]
    /\ rules = [p \in Pods |-> None]

-----------------------------------------------------------------------------
(* What the webhook builds.                                                *)

NoEnv == [rules |-> 0, names |-> {}]

\* A container of the pod's owner.  command: "image" when the pod names none.
AppContainer(name, command) ==
    [name |-> name, command |-> command, mounts |-> <<>>, env |-> NoEnv]

\* scannerEnv: the variables of the rule fields that are set, and PII_MODE.
ScannerEnv(pol) ==
    [rules |-> pol.rules, names |-> IF pol.audit THEN {"PII_MODE"} ELSE {}]

\* buildSidecar: metrics for the audit and the stats channel, and the rules
\* file that is mounted and named.
BuildSidecar(pol, volume) ==
    LET metrics == IF pol.audit \/ pol.stats THEN {"PII_METRICS_PORT"} ELSE {}
        summary == IF pol.audit THEN {"PII_STATS_LOG_INTERVAL"} ELSE {}
        env     == ScannerEnv(pol)
    IN  [name |-> "pii-shield-sidecar", command |-> "/pii-shield",
         mounts |-> <<volume, "pii-tmp", "pii-policy">>,
         env |-> [env EXCEPT !.names = @ \cup metrics \cup summary \cup {"PII_CONFIG_FILE"}]]

\* addSidecar: an init container that restarts, or a container of the pod.
AddSidecar(pod, sidecar) ==
    IF setup.legacy THEN [pod EXCEPT !.containers = Append(@, sidecar)]
              ELSE [pod EXCEPT !.inits = Append(@, sidecar)]

\* getTargetContainerIndex: the only container whatever the annotation says.
Targets(pod) ==
    IF Len(pod.containers) = 1 THEN {1}
    ELSE {i \in DOMAIN pod.containers :
             /\ pod.containers[i].name = pod.target
             /\ \A j \in 1..i - 1 : pod.containers[j].name # pod.target}

\* Mutant: the target does not mount the volume it is to write to.
FileModeUnmounted(pod, pol, i) ==
    AddSidecar([pod EXCEPT !.volumes = @ \o <<"pii-shared", "pii-tmp", "pii-policy">>],
               BuildSidecar(pol, "pii-shared"))

InjectFileMode(pod, pol, i) ==
    AddSidecar([pod EXCEPT !.volumes = @ \o <<"pii-shared", "pii-tmp", "pii-policy">>,
                           !.containers[i].mounts = Append(@, "pii-shared")],
               BuildSidecar(pol, "pii-shared"))

MkFifo == [name |-> "pii-mkfifo", command |-> "mkfifo", mounts |-> <<"pii-pipe-dir">>, env |-> NoEnv]

\* The command is the policy's, or the container's own, inside a shell that
\* writes to the pipe.
InjectPipeMode(pod, pol, i) ==
    AddSidecar([pod EXCEPT !.volumes = @ \o <<"pii-pipe-dir", "pii-tmp", "pii-policy">>,
                           !.inits = Append(@, MkFifo),
                           !.containers[i].command = "to the pipe",
                           !.containers[i].mounts = Append(@, "pii-pipe-dir")],
               BuildSidecar(pol, "pii-pipe-dir"))

\* The audit agent shares the pid namespace and has no rules file.
InjectEBPFMode(pod, pol) ==
    LET env == ScannerEnv(pol)
    IN  AddSidecar([pod EXCEPT !.sharedPids = TRUE],
                   [name |-> "pii-shield-sidecar", command |-> "/pii-shield-ebpf", mounts |-> <<>>,
                    env |-> [env EXCEPT !.names = @ \cup {"PII_STATS_LOG_INTERVAL"}]])

\* dropRuleEnv: in every container with the sidecar's name.
DropRuleEnv(pod) ==
    LET Drop(c) == IF c.name = "pii-shield-sidecar" THEN [c EXCEPT !.env.rules = 0] ELSE c
    IN  [pod EXCEPT !.inits = [i \in DOMAIN @ |-> Drop(@[i])],
                    !.containers = [i \in DOMAIN @ |-> Drop(@[i])]]

-----------------------------------------------------------------------------
(* The handling of a request.                                              *)

Mode(pol) == IF pol.mode = "" THEN "file" ELSE pol.mode

Allow(pod, how) == [pod |-> pod, policy |-> None, how |-> how]
Deny == [pod |-> None, policy |-> None, how |-> "plain"]

\* Mutant: a pod whose policy is missing is let through like any other.
UnknownIgnored(pod) == Allow(pod, "plain")

\* The policy a pod names is not there.
NoPolicy(pod) == IF setup.strict THEN Deny ELSE Allow(pod, "warned")

\* Handle up to the injection, for the policy it finds.  An injected pod still
\* carries the policy, for the check of the rendered file.
Handle(pod, pol) ==
    IF ~pod.inject THEN Allow(pod, "plain")
    ELSE IF pol = None THEN NoPolicy(pod)
    ELSE IF Len(pod.containers) > 1 /\ pod.target = None THEN Deny
    ELSE LET mode == Mode(pol)
             i    == CHOOSE i \in Targets(pod) : TRUE
             how  == IF mode \in {"pipe", "ebpf"} \/ pol.audit THEN "warned" ELSE "plain"
             With(injected) == [Allow(injected, how) EXCEPT !.policy = pol]
         IN  CASE mode = "ebpf" /\ pol.audit -> With(InjectEBPFMode(pod, pol))
               [] mode = "file" /\ Targets(pod) # {} -> With(InjectFileMode(pod, pol, i))
               [] /\ mode = "pipe" /\ Targets(pod) # {}
                  /\ pol.command \/ pod.containers[i].command # "image" -> With(InjectPipeMode(pod, pol, i))
               [] OTHER -> Deny

\* An owner creates a pod, or changes the labels of one: the webhook is
\* registered for both.
Create(p) ==
    /\ pods[p] = None /\ request[p] = None
    /\ \E t \in Templates : request' = [request EXCEPT ![p] = [at |-> "policy", create |-> TRUE, pod |-> t]]
    /\ UNCHANGED <<setup, policy, configMap, changes, pods, ghosts, file, rules, updates>>

Update(p) ==
    /\ pods[p] # None /\ request[p] = None /\ updates < MaxUpdates
    /\ \E inject \in BOOLEAN :
          request' = [request EXCEPT ![p] = [at |-> "policy", create |-> FALSE,
                                             pod |-> [pods[p] EXCEPT !.inject = inject]]]
    /\ updates' = updates + 1
    /\ UNCHANGED <<setup, policy, configMap, changes, pods, ghosts, file, rules>>

\* The API server takes the answer: it stores a new pod, and of an update
\* everything but a changed spec, which it refuses.
SameSpec(a, b) == [a EXCEPT !.inject = FALSE] = [b EXCEPT !.inject = FALSE]

Answer(p, pod, how, wanted) ==
    LET create == request[p].create
        taken  == create \/ SameSpec(pod, pods[p])
    IN  /\ request' = [request EXCEPT ![p] = None]
        /\ pods' = IF taken THEN [pods EXCEPT ![p] = pod] ELSE pods
        /\ answer' = IF taken THEN [answer EXCEPT ![p] = how] ELSE answer
        /\ asked' = IF create THEN [asked EXCEPT ![p] = wanted] ELSE asked

Refuse(p) == request' = [request EXCEPT ![p] = None] /\ UNCHANGED <<pods, answer, asked>>

\* The webhook does not answer.
Unavailable(p) ==
    /\ request[p] # None
    /\ IF setup.failClosed THEN Refuse(p) ELSE Answer(p, request[p].pod, "bypassed", 0)
    /\ UNCHANGED <<setup, policy, configMap, changes, deleted, file, rules, updates>>

\* Handle reads the policy, decides and injects.
ReadPolicy(p) ==
    /\ request[p] # None /\ request[p].at = "policy"
    /\ LET resp == Handle(request[p].pod, policy)
       IN  CASE resp.pod = None -> Refuse(p)
             [] resp.pod # None /\ resp.policy = None -> Answer(p, resp.pod, resp.how, 0)
             [] OTHER -> /\ request' = [request EXCEPT ![p] =
                                [at |-> "file", create |-> @.create, pod |-> @.pod, patched |-> resp.pod,
                                 policy |-> resp.policy, how |-> resp.how]]
                         /\ UNCHANGED <<pods, answer, asked>>
    /\ UNCHANGED <<setup, policy, configMap, changes, deleted, file, rules, updates>>

\* Mutant: the variables are dropped whether or not there is a file.
AlwaysDropped(r, rendered) == IF Mode(r.policy) # "ebpf" THEN DropRuleEnv(r.patched) ELSE r.patched

\* policyFileRendered, dropRuleEnv and the answer.
FinalPod(r, rendered) == IF Mode(r.policy) # "ebpf" /\ rendered # None THEN DropRuleEnv(r.patched) ELSE r.patched

ReadFile(p) ==
    /\ request[p] # None /\ request[p].at = "file"
    /\ Answer(p, FinalPod(request[p], configMap), request[p].how, request[p].policy.rules)
    /\ deleted' = IF request[p].create THEN deleted \ {p} ELSE deleted
    /\ UNCHANGED <<setup, policy, configMap, changes, file, rules, updates>>

-----------------------------------------------------------------------------
(* The policy, its ConfigMap, the kubelet and the sidecar.                 *)

\* The policy is created, edited or deleted; a new one of the same name is
\* another object.
ChangePolicy ==
    /\ changes < MaxPolicies
    /\ changes' = changes + 1
    /\ \/ \E pol \in Policies : LET uid == IF policy = None THEN changes' ELSE policy.uid
                               IN  policy' = [pol EXCEPT !.uid = uid] /\ policy' # policy
       \/ policy # None /\ policy' = None
    /\ UNCHANGED <<setup, configMap, pods, request, ghosts, file, rules, updates>>

\* The controller renders the policy's rules and becomes the owner of the
\* ConfigMap.
Rendered(pol) == [rules |-> pol.rules, owner |-> pol.uid]

Render ==
    /\ policy # None /\ configMap # Rendered(policy)
    /\ configMap' = Rendered(policy)
    /\ UNCHANGED <<setup, policy, changes, pods, request, ghosts, file, rules, updates>>

\* The garbage collector deletes the ConfigMap of a policy that is gone.
Collect ==
    /\ configMap # None /\ (policy # None => policy.uid # configMap.owner)
    /\ configMap' = None /\ deleted' = Pods
    /\ UNCHANGED <<setup, policy, changes, pods, request, answer, asked, file, rules, updates>>

Sidecar(pod) == AllContainers(pod)[CHOOSE i \in SidecarsOf(pod) : \A j \in SidecarsOf(pod) : i <= j]
HasSidecar(p) == pods[p] # None /\ SidecarsOf(pods[p]) # {}
ReadsFile(p) == HasSidecar(p) /\ "PII_CONFIG_FILE" \in Sidecar(pods[p]).env.names

Mounted == IF configMap = None THEN None ELSE configMap.rules

\* The kubelet mounts and refreshes the mounted ConfigMap, which is optional.
Mount(p) ==
    /\ ReadsFile(p) /\ file[p] # Mounted
    /\ file' = [file EXCEPT ![p] = Mounted]
    /\ UNCHANGED <<setup, policy, configMap, changes, pods, request, ghosts, rules, updates>>

\* Mutant: the file is read once.
FirstFile(p) ==
    LET env == Sidecar(pods[p]).env.rules
    IN  CASE rules[p] # None -> rules[p]
          [] rules[p] = None /\ env # 0 -> env
          [] rules[p] = None /\ env = 0 -> IF ReadsFile(p) /\ file[p] \in Nat THEN file[p] ELSE BuiltIn

\* What the sidecar runs on: a variable wins over the file; with neither the
\* built-in rules; a file that is gone later leaves the last rules in use.
Effective(p) ==
    LET env == Sidecar(pods[p]).env.rules
    IN  CASE env # 0 -> env
          [] env = 0 /\ ReadsFile(p) /\ file[p] \in Nat -> file[p]
          [] OTHER -> IF rules[p] = None THEN BuiltIn ELSE rules[p]

\* The sidecar starts after the mount and reloads the file when it changes.
Load(p) ==
    /\ HasSidecar(p)
    /\ ReadsFile(p) => file[p] # NotMounted
    /\ rules[p] # Effective(p)
    /\ rules' = [rules EXCEPT ![p] = Effective(p)]
    /\ UNCHANGED <<setup, policy, configMap, changes, pods, request, ghosts, file, updates>>

\* The kubelet restarts the sidecar's container.
Restart(p) ==
    /\ rules[p] # None
    /\ rules' = [rules EXCEPT ![p] = None]
    /\ UNCHANGED <<setup, policy, configMap, changes, pods, request, ghosts, file, updates>>

\* A pod is deleted.
Delete(p) ==
    /\ pods[p] # None /\ request[p] = None
    /\ pods' = [pods EXCEPT ![p] = None]
    /\ file' = [file EXCEPT ![p] = NotMounted]
    /\ rules' = [rules EXCEPT ![p] = None]
    /\ UNCHANGED <<setup, policy, configMap, changes, request, ghosts, updates>>

Next ==
    \/ ChangePolicy \/ Render \/ Collect
    \/ \E p \in Pods : \/ Create(p) \/ Update(p) \/ Unavailable(p) \/ ReadPolicy(p) \/ ReadFile(p)
                       \/ Mount(p) \/ Load(p) \/ Restart(p) \/ Delete(p)

\* The controller, the garbage collector, the kubelet and the sidecar go on.
Fairness ==
    /\ WF_vars(Render) /\ WF_vars(Collect)
    /\ \A p \in Pods : WF_vars(Mount(p)) /\ WF_vars(Load(p))

Spec == Init /\ [][Next]_vars /\ Fairness

-----------------------------------------------------------------------------
(* Properties.                                                             *)

\* Type correctness of the pods, the requests and the rules in use.
TypeOK ==
    /\ \A p \in Pods : pods[p] # None => pods[p] \in PodType
    /\ \A p \in Pods : request[p] # None => request[p].at \in {"policy", "file"}
    /\ \A p \in Pods : rules[p] \in Nat \cup {None, BuiltIn}
    /\ deleted \subseteq Pods

\* The pod's logs go through a sidecar that hides what it finds.
Redacts(p) ==
    /\ HasSidecar(p)
    /\ Sidecar(pods[p]).command = "/pii-shield"
    /\ "PII_MODE" \notin Sidecar(pods[p]).env.names

\* A pod that asks for injection and whose logs are not redacted was admitted
\* with a warning or past a webhook that did not answer; under strict mode with
\* failurePolicy Fail it has a sidecar or an agent (Handle, whatever the policy
\* does between two reads and whatever updates follow).
NoSilentBypass ==
    \A p \in Pods : pods[p] # None /\ pods[p].inject =>
        /\ Redacts(p) \/ answer[p] # "plain"
        /\ setup.strict /\ setup.failClosed => HasSidecar(p)

\* What the API server holds of an injected pod is well formed: one sidecar,
\* volumes of distinct names, every mount of a volume of the pod, and with
\* the sidecar a container that writes where it reads (injectFileMode,
\* injectPipeMode, and a second call of the webhook for the same pod).
WellFormed ==
    /\ TypeOK
    /\ \A p \in Pods : pods[p] # None =>
        LET pod == pods[p]
        IN  /\ \A i, j \in SidecarsOf(pod) : i = j
            /\ IsInjective(pod.volumes)
            /\ \A c \in ToSet(AllContainers(pod)) : ToSet(c.mounts) \subseteq ToSet(pod.volumes)
            /\ ReadsFile(p) => \E c \in ToSet(pod.containers) :
                  c.name # "pii-shield-sidecar" /\ Head(Sidecar(pod).mounts) \in ToSet(c.mounts)

\* A sidecar never runs on the built-in rules under a policy that sets rules,
\* unless the ConfigMap was deleted after the webhook had seen it: the rule
\* variables are dropped only when the file takes their place.
NeverBare ==
    \A p \in Pods : rules[p] = BuiltIn => asked[p] = 0 \/ p \in deleted

\* A sidecar that was admitted without rule variables never stays behind its
\* policy: it comes to run on the policy's rules, also after a deleted
\* ConfigMap and a policy made anew under the same name.
RulesArrive ==
    \A p \in Pods : []<>(policy # None /\ ReadsFile(p) /\ Sidecar(pods[p]).env.rules = 0
                          => rules[p] = policy.rules)
=============================================================================
