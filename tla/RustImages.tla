----------------------------- MODULE RustImages -----------------------------
(***************************************************************************)
(* Which images of a deployment the Rust client checks: those of a Compose *)
(* file (rs/src/deployment_provenance.rs), and the file and manager image  *)
(* that Compose Manager's action log names                                 *)
(* (rs/src/compose_manager_provenance.rs).                                 *)
(*                                                                         *)
(* A Compose file is the sequence of its services, YAML merges applied.    *)
(* An image is its repository, its tag and its digest.                     *)
(***************************************************************************)
EXTENDS SequencesExt

CONSTANTS
    ImageDigests,   \* sha256 digests, well-formed
    Hub             \* from names under docker.io/ to the names without

Normalized(name) == IF name \in DOMAIN Hub THEN Hub[name] ELSE name

\* pinned_digest: a digest, after a tag that is well-formed or none.
Pinned(image) == image.tag \in {"none", "tag"} /\ image.digest \in ImageDigests

-----------------------------------------------------------------------------
(* select_compose_images. *)

\* The places in the file of the services a deployment asked for; no names
\* ask for all.
Chosen(compose, services) ==
    {k \in DOMAIN compose.services :
        services = {} \/ compose.services[k].name \in services}

Legible(compose, services) ==
    /\ compose.valid
    /\ services \subseteq {compose.services[k].name : k \in DOMAIN compose.services}
    /\ \A k \in DOMAIN compose.services : compose.services[k].name # "not a string"
    /\ \A k \in Chosen(compose, services) :
          compose.services[k].image.kind \in {"absent", "literal"}

\* Those that run the image a policy is about.
ImagesOf(compose, services, repository) ==
    {k \in Chosen(compose, services) :
        LET image == compose.services[k].image
        IN image.kind = "literal" /\ Normalized(image.repository) = Normalized(repository)}

Selectable(compose, services, policies) ==
    /\ policies # <<>> /\ Legible(compose, services)
    /\ \A k \in DOMAIN policies :
          LET found == ImagesOf(compose, services, policies[k].key)
          IN found # {} /\ \A j \in found : Pinned(compose.services[j].image)

\* The selected images by their place: policy by policy, in the file's order.
SelectComposeImages(compose, services, policies) ==
    UNION {{[place |-> <<k, j>>, key |-> policies[k].key, policy |-> policies[k].policy,
             digest |-> compose.services[j].image.digest] :
                j \in ImagesOf(compose, services, policies[k].key)} :
           k \in DOMAIN policies}

\* The option that names signers names only images that have a policy.
KnownSigners(signers, policies) ==
    DOMAIN signers \subseteq {policies[k].key : k \in DOMAIN policies}

-----------------------------------------------------------------------------
(* The action log: the latest actions count. *)

Latest(actions, Test(_)) == SelectLastInSeq(actions, Test)

ComposeUp(actions, file) ==
    Latest(actions, LAMBDA a : a.action = "compose_up" /\ (file = "any" \/ a.file = file))
Started(actions) == Latest(actions, LAMBDA a : a.action = "compose_manager_started")

\* The manager's own image is that of its policy, pinned.
ManagerImage(actions, policy) ==
    /\ Started(actions) # 0
    /\ LET image == actions[Started(actions)].image
       IN /\ image.kind = "literal"
          /\ Normalized(image.repository) = Normalized(policy.key)
          /\ image.tag # "none" \/ image.digest # "none"
          /\ Pinned(image)

\* The action names one file: path, commit and hash, all well-formed.
FileReference(action) == action.commit = "commit" /\ action.sha # "invalid" /\ action.file \notin {"none", "invalid"}

ManagerSelectable(actions, file, policies, manager, signers) ==
    /\ policies # <<>>
    /\ ComposeUp(actions, file) # 0
    /\ ManagerImage(actions, manager)
    /\ FileReference(actions[ComposeUp(actions, file)])
    /\ KnownSigners(signers, policies)
=============================================================================
