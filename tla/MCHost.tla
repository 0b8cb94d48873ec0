------------------------------- MODULE MCHost -------------------------------
(***************************************************************************)
(* What runs beside the session on an operator's machine and in the        *)
(* cluster: parts that share no state.  A behaviour of this module is a    *)
(* behaviour of one of them, chosen at the start, with the others at rest. *)
(***************************************************************************)
EXTENDS Bootstrap, LocalDiscovery, LocalAgents, SecretGrants,
        ArmoryOverlays, ReleaseAgent, AgentPod, TLC

VARIABLE part

CONSTANTS n1, n2, r1, r2, i1, i2

Parts == {"boot", "discovery", "agents", "grants", "overlays", "release", "pod"}

\* Bootstrap: the order of preference.
MCPreferred == <<"codex", "anthropic">>

\* LocalAgents: both deployments belong to one Auspex.
MCProcessOf == [d \in Deployments |-> "x1"]

\* SecretGrants: two workers share a grant, the third has its own.
MCGrantOf == [w \in Workers |-> IF w = "w3" THEN "g2" ELSE "g1"]

\* ArmoryOverlays: an agent with a native dependency, a profile with an artifact and one whose
\* entry names none, a forge template; and a name the index does not list.
MCEntry(kind, distribution, ociRef, destructive, deps) ==
    [kind |-> kind, distribution |-> distribution, ociRef |-> ociRef, destructive |-> destructive,
     deps |-> deps]
MCCatalog ==
    ("agent/a" :> MCEntry("agent", "registry", FALSE, FALSE,
                          {[kind |-> "extension", required |-> FALSE, nativeOnly |-> TRUE]}))
    @@ ("profile/p" :> MCEntry("profile", "oci", TRUE, FALSE, {}))
    @@ ("profile/q" :> MCEntry("profile", "oci", FALSE, FALSE, {}))
    @@ ("forge/f" :> MCEntry("forge-template", "oci", TRUE, TRUE, {}))
MCDraft(armory, image, namespace, complete) ==
    [armory |-> armory, image |-> image, namespace |-> namespace, complete |-> complete]
MCDrafts == {MCDraft("agent/a", "digest", NotGiven, TRUE), MCDraft("profile/p", "tag", "agents", TRUE),
             MCDraft("profile/q", "digest", "other", TRUE), MCDraft("forge/f", "digest", "agents", FALSE)}
MCDeploy(namespace, image) == [namespace |-> namespace, image |-> image]
MCDeploys == {MCDeploy(NotGiven, NotGiven), MCDeploy("agents", "tag"), MCDeploy("other", "digest")}

\* ReleaseAgent: one repository outside the allowlist, two releases under one path.
MCRepoOf == [r \in Releases |-> IF r = "r3" THEN "fork" ELSE "omegon"]
MCPathOf == [r \in Releases |-> IF r = "r3" THEN "p2" ELSE "p1"]

\* AgentPod: the three modes with and without identity, TLS, connectors and prompts.
MCTls(enabled, theirs, standard) ==
    [enabled |-> enabled, given |-> theirs, standard |-> standard, clientCa |-> TRUE]
MCSpec(mode, primary, vox, provision, mtls, tls, source, renamed) ==
    [mode |-> mode, primary |-> primary, vox |-> vox, bounds |-> TRUE,
     secrets |-> {"auth", "runtime", "vault"}, tls |-> tls,
     identity |-> [provision |-> provision, mtls |-> mtls],
     prompt |-> [source |-> source, renamed |-> renamed]]
MCSpecs ==
    {MCSpec("daemon", TRUE, {"aether"}, FALSE, FALSE, MCTls(FALSE, FALSE, TRUE), {}, FALSE),
     MCSpec("daemon", TRUE, {"discord"}, TRUE, TRUE, MCTls(FALSE, FALSE, TRUE), {}, FALSE),
     MCSpec("daemon", FALSE, {"aether", "discord"}, TRUE, FALSE, MCTls(TRUE, TRUE, FALSE), {}, FALSE),
     MCSpec("job", FALSE, {}, FALSE, FALSE, MCTls(TRUE, FALSE, TRUE), {"inline", "secret"}, FALSE),
     MCSpec("job", FALSE, {}, TRUE, FALSE, MCTls(FALSE, FALSE, TRUE), {"config_map"}, TRUE),
     MCSpec("cronjob", FALSE, {"aether"}, TRUE, FALSE, MCTls(TRUE, FALSE, TRUE), {"inline"}, FALSE)}

HostInit ==
    /\ part \in Parts
    /\ BtInit /\ LdInit /\ LaInit /\ SgInit /\ AoInit /\ RaInit /\ ApInit
    /\ part # "pod" => cr = (CHOOSE s \in Specs : TRUE) /\ ~op.flag

HostNext ==
    /\ UNCHANGED part
    /\ \/ part = "boot" /\ BtNext
          /\ UNCHANGED <<ldVars, laVars, sgVars, aoVars, raVars, apVars>>
       \/ part = "discovery" /\ LdNext
          /\ UNCHANGED <<btVars, laVars, sgVars, aoVars, raVars, apVars>>
       \/ part = "agents" /\ LaNext
          /\ UNCHANGED <<btVars, ldVars, sgVars, aoVars, raVars, apVars>>
       \/ part = "grants" /\ SgNext
          /\ UNCHANGED <<btVars, ldVars, laVars, aoVars, raVars, apVars>>
       \/ part = "overlays" /\ AoNext
          /\ UNCHANGED <<btVars, ldVars, laVars, sgVars, raVars, apVars>>
       \/ part = "release" /\ RaNext
          /\ UNCHANGED <<btVars, ldVars, laVars, sgVars, aoVars, apVars>>
       \/ part = "pod" /\ ApNext
          /\ UNCHANGED <<btVars, ldVars, laVars, sgVars, aoVars, raVars>>

hostVars == <<part, btVars, ldVars, laVars, sgVars, aoVars, raVars, apVars>>

HostSpec == HostInit /\ [][HostNext]_hostVars
=============================================================================
