-------------------------------- MODULE MCParts --------------------------------
\* Two tool calls at a time on every kind of setup; three requests of a
\* JSON-RPC client; two artifacts; two clients over two windows of a rate
\* limiter; logs of up to four events with two tool calls.
EXTENDS Parts

TwoRequests == {1, 2}
SomeTools == {"workspace.read", "patch.apply", "workspace.exec"}
Permissions ==
    [t \in SomeTools |-> IF t = "workspace.read" THEN "read-only"
                         ELSE IF t = "patch.apply" THEN "write" ELSE "dangerous"]

Base ==
    [mode |-> "auto", allowTools |-> {}, denyTools |-> {}, allowPermissions |-> {},
     denyPermissions |-> {}, dangerous |-> TRUE, trusted |-> FALSE, executor |-> "handler",
     hasList |-> FALSE, allowedTools |-> {}, timeout |-> TRUE, network |-> FALSE,
     built |-> TRUE]

\* Every mode and executor with every mix of overrides; docker with every mix
\* of its options.
PolicySetups ==
    {[Base EXCEPT !.mode = m, !.executor = e, !.allowTools = at, !.denyTools = dt,
                  !.allowPermissions = ap, !.denyPermissions = dp] :
        m \in {"auto", "ask", "yolo"}, e \in {"handler", "registry"},
        at \in {{}, {"patch.apply"}}, dt \in {{}, {"patch.apply"}},
        ap \in {{}, {"dangerous"}}, dp \in {{}, {"dangerous"}, {"read-only"}}}
DockerSetups ==
    {[Base EXCEPT !.mode = "yolo", !.executor = "docker", !.hasList = (list # {}),
                  !.allowedTools = list, !.timeout = limit, !.network = net,
                  !.built = built, !.dangerous = d] :
        list \in {{}, {"workspace.exec"}, {"patch.apply"}},
        limit, net, built, d \in BOOLEAN}
\* A registry executor made with allowDangerous.
TrustedSetups ==
    {[s EXCEPT !.trusted = TRUE] :
        s \in {p \in PolicySetups : /\ p.executor = "registry"
                                    /\ p.allowTools = {} /\ p.denyTools = {}}}
AllSetups == PolicySetups \cup TrustedSetups \cup DockerSetups

TwoArtifacts == {1, 2}
TwoKeys == {1, 2}
TwoToolCalls == {1, 2}
NoneOrSome == {0, 2}
SomeBudgets == {0, 1, 2, 3}
=============================================================================
