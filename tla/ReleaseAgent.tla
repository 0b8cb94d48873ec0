---------------------------- MODULE ReleaseAgent ----------------------------
(***************************************************************************)
(* The release agent (auspex-core/src/release_agent.rs): a release is      *)
(* fetched, staged as a preview artifact in a file, read and approved by   *)
(* an operator, and turned into a publication.  Fetching, staging, reading *)
(* and approving are separate calls, so a file can be written again        *)
(* between any two of them, and releases are edited on GitHub meanwhile.   *)
(***************************************************************************)
EXTENDS Integers, FiniteSets

CONSTANTS
    Releases,      \* (repo, tag) pairs
    RepoOf,        \* their repository
    PathOf,        \* slug_path_segment of both: two releases may share a path
    Allowlist,
    MaxRevisions,  \* times a release is edited on GitHub
    MaxCommands    \* calls of the release agent

\* There is something to release.
ASSUME ReleasesAssumption == Releases # {}

VARIABLES
    upstream,   \* external: per release, how often its notes were edited
    fetched,    \* the release a caller holds, between fetch_github_release and staging
    artifact,   \* per path: the preview file; one that does not parse reads like none
    held,       \* the artifact a publisher has read
    shown,      \* per path: what the operator last read there
    published,  \* the last dry run
    commands

raVars == <<upstream, fetched, artifact, held, shown, published, commands>>

Paths == {PathOf[r] : r \in Releases}
NoRelease == CHOOSE r \in Releases : TRUE

\* A post of a release; approvedRev is for the properties: what was there when it was approved.
NoPost == [st |-> "none", of |-> NoRelease, rev |-> 0, by |-> "nobody", approvedOf |-> NoRelease, approvedRev |-> 0]
NoFetch == [st |-> "none", of |-> NoRelease, rev |-> 0]

\* generate_release_preview_post, build_release_preview_artifact: targets and state are preview.
build_release_preview_artifact(f) == [NoPost EXCEPT !.st = "preview", !.of = f.of, !.rev = f.rev]

Substrates == {"host", "host-without-runtime", "host-shim", "orchestrated", "other", "unreported"}
Boundaries == {[oci |-> FALSE, image |-> FALSE, substrate |-> "unreported"]}
              \cup {[oci |-> TRUE, image |-> i, substrate |-> s] : i \in BOOLEAN, s \in Substrates}

\* The execution boundary: only a host with a container runtime launches an image; what else
\* is wrong with it blocks or only warns.
execution_boundary_ready(b) == ~b.oci \/ (b.image /\ b.substrate = "host")
BoundaryBlocks(b) == b.oci /\ (~b.image \/ b.substrate \in {"host-shim", "orchestrated"})

\* release_agent_readiness
preview_ready(github, model, allowlist, b) ==
    /\ github /\ model /\ allowlist # {}
    /\ ~BoundaryBlocks(b) /\ execution_boundary_ready(b)

\* ReleasePreviewApproval::is_approved: both who and when.
is_approved(by, at) == by # "nobody" /\ at

RaInit ==
    /\ upstream = [r \in Releases |-> 0]
    /\ fetched = NoFetch
    /\ artifact = [p \in Paths |-> NoPost]
    /\ held = NoPost /\ shown = [p \in Paths |-> NoPost] /\ published = NoPost
    /\ commands = 0

Command == commands < MaxCommands /\ commands' = commands + 1

----------------------------------------------------------------------------
\* The notes of a release are edited.
EditRelease(r) ==
    /\ upstream[r] < MaxRevisions
    /\ upstream' = [upstream EXCEPT ![r] = @ + 1]
    /\ UNCHANGED <<fetched, artifact, held, shown, published, commands>>

\* fetch_github_release: an error or an empty token leaves nothing.
fetch_github_release(r, token) ==
    /\ Command
    /\ fetched' = IF token THEN [st |-> "fetched", of |-> r, rev |-> upstream[r]] ELSE NoFetch
    /\ UNCHANGED <<upstream, artifact, held, shown, published>>

\* Mutant: the frontmatter of the file that is there is kept.
write_keeping_frontmatter(f) ==
    artifact' = [artifact EXCEPT ![PathOf[f.of]] =
                    IF @.st = "approved" THEN [@ EXCEPT !.of = f.of, !.rev = f.rev]
                    ELSE build_release_preview_artifact(f)]

\* write_release_preview_artifact: the file is written whole, whatever was there.
write_release_preview_artifact(f) ==
    artifact' = [artifact EXCEPT ![PathOf[f.of]] = build_release_preview_artifact(f)]

RepoAllowed(f, allowlist) == RepoOf[f.of] \in allowlist

\* fs::write that fails: the file is as it was, or cut off so that it does not parse.
WriteBreaksOff(p) == artifact' \in {artifact, [artifact EXCEPT ![p] = NoPost]}

\* stage_release_preview_artifact with the readiness the caller computed before;
\* run_release_agent_preview is this with the inherited boundary.
stage_release_preview_artifact(github, model, allowlist, b, writes) ==
    /\ Command /\ fetched.st = "fetched"
    /\ fetched' = NoFetch
    /\ IF preview_ready(github, model, allowlist, b) /\ RepoAllowed(fetched, allowlist)
       THEN IF writes THEN write_release_preview_artifact(fetched)
            ELSE WriteBreaksOff(PathOf[fetched.of])
       ELSE UNCHANGED artifact
    /\ UNCHANGED <<upstream, held, shown, published>>

\* The operator reads the preview.
ReadPreview(p) ==
    /\ artifact[p].st # "none" /\ shown[p] # artifact[p]
    /\ shown' = [shown EXCEPT ![p] = artifact[p]]
    /\ UNCHANGED <<upstream, fetched, artifact, held, published, commands>>

\* approve_release_preview_artifact: the file at the path is parsed and written back approved.
approve_release_preview_artifact(p, by, at, writes) ==
    /\ Command
    /\ IF is_approved(by, at) /\ artifact[p].st # "none"
       THEN IF writes
            THEN artifact' = [artifact EXCEPT ![p].st = "approved", ![p].by = by,
                                ![p].approvedOf = artifact[p].of, ![p].approvedRev = artifact[p].rev]
            ELSE WriteBreaksOff(p)
       ELSE UNCHANGED artifact
    /\ UNCHANGED <<upstream, fetched, held, shown, published>>

\* A publisher reads the file...
HoldArtifact(p) ==
    /\ Command
    /\ held' = artifact[p]
    /\ UNCHANGED <<upstream, fetched, artifact, shown, published>>

\* ... and builds the publication from what it read: the caller brings an approval and a
\* channel, and the artifact itself has to say approved.
build_discord_dry_run_publish(by, at, channel) ==
    /\ held.st # "none"
    /\ published' = IF is_approved(by, at) /\ channel /\ held.st = "approved" THEN held ELSE published
    /\ held' = NoPost
    /\ UNCHANGED <<upstream, fetched, artifact, shown, commands>>

RaNext ==
    \/ \E r \in Releases : EditRelease(r) \/ \E token \in BOOLEAN : fetch_github_release(r, token)
    \/ \E github, model, writes \in BOOLEAN, allowlist \in {{}, Allowlist}, b \in Boundaries :
          stage_release_preview_artifact(github, model, allowlist, b, writes)
    \/ \E p \in Paths : \/ ReadPreview(p) \/ HoldArtifact(p)
                        \/ \E by \in {"nobody", "operator"}, at, writes \in BOOLEAN :
                              approve_release_preview_artifact(p, by, at, writes)
    \/ \E by \in {"nobody", "operator"}, at, channel \in BOOLEAN :
          build_discord_dry_run_publish(by, at, channel)

RaSpec == RaInit /\ [][RaNext]_raVars

----------------------------------------------------------------------------
\* The state is well formed, and every file is one of a repository of the allowlist.
RaTypeOK ==
    /\ fetched.st \in {"none", "fetched"} /\ held.st \in {"none", "preview", "approved"}
    /\ published.st \in {"none", "preview", "approved"}
    /\ \A p \in Paths : /\ artifact[p].st \in {"none", "preview", "approved"}
                        /\ artifact[p].st # "none" => RepoOf[artifact[p].of] \in Allowlist
                                                      /\ PathOf[artifact[p].of] = p

\* What is published carries an approval, and the approval was given to exactly these notes of
\* this release: staging again takes the approval of the earlier notes away, also when another
\* release is written to the same file (write_release_preview_artifact,
\* build_discord_dry_run_publish).
PublishedWasApproved ==
    published.st # "none" =>
        /\ published.st = "approved" /\ published.by # "nobody"
        /\ published.approvedOf = published.of /\ published.approvedRev = published.rev

\* Expected to fail.  What is approved is what the operator read: a file that is staged again
\* after the operator read it is approved as it is then ("preview artifact is not
\* operator-approved").
ApprovedWasRead ==
    \A p \in Paths : artifact[p].st = "approved" =>
        shown[p].st # "none" /\ shown[p].of = artifact[p].of /\ shown[p].rev = artifact[p].rev
=============================================================================
