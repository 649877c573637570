--------------------------- MODULE RustProvenance ---------------------------
(***************************************************************************)
(* Image provenance in the Rust client (rs/src/provenance.rs): the GitHub  *)
(* attestations of one image digest are fetched page by page, and one of   *)
(* them must show the build the policy asks for.                           *)
(*                                                                         *)
(* The server is free: what a page holds, where its Link header points and *)
(* how large it is are inputs.  Sigstore's verification of a bundle is a   *)
(* fact of the bundle (`signed`), as are the claims of its certificate.    *)
(***************************************************************************)
EXTENDS Integers, FiniteSets, SequencesExt

CONSTANTS
    MaxPages, MaxEntries,        \* 32 pages, 100 entries each
    MaxPage, MaxTotal,           \* 16 MiB and 64 MiB
    MaxLink, MaxCursor,          \* 8 KiB and 4 KiB
    Repositories, Digests,       \* well-formed owner/repo names and sha256 digests
    Refs, Commits,               \* references "refs/...", commits of 40 hexadecimal digits
    CursorSize                   \* of each cursor

VARIABLES
    target,         \* [original, token, digest]: the fetch in progress
    url, visited,   \* the next page, the pages asked for
    bytes,          \* read so far
    bundles,        \* the attestations so far
    requests        \* of this fetch: [url, token]

fetchVars == <<target, url, visited, bytes, bundles, requests>>

None == "none"
NoFetch == [original |-> [origin |-> None, repository |-> None, digest |-> None, cursor |-> None],
            token |-> FALSE]

-----------------------------------------------------------------------------
(* The pages. *)

GithubApiBase(api) == api \in {"default", "custom"}

\* fetch_image_provenance_with_options: the token is GitHub's, and goes only
\* to GitHub's own address.
Fetchable(repository, digest, api) ==
    repository \in Repositories /\ digest \in Digests /\ GithubApiBase(api)

StartFetch(repository, digest, api, token) ==
    LET original == [origin |-> api, repository |-> repository, digest |-> digest, cursor |-> None]
    IN /\ target' = [original |-> original, token |-> token /\ api = "default"]
       /\ url' = original /\ visited' = {} /\ bytes' = 0 /\ bundles' = <<>> /\ requests' = <<>>

LinkBytes(fields) == FoldLeft(LAMBDA n, f : n + f.size, Len(fields) - 1, fields)

\* Of the server's next link only the cursor is used.
BadNextUrl(link) == [link.url EXCEPT !.cursor = link.cursors[1]]
NextUrl(link) == [target.original EXCEPT !.cursor = link.cursors[1]]

\* The links that say they lead to the next page, in the order of the fields;
\* a field that is no text counts as one.
Telling(fields) ==
    LET garbled == [next |-> TRUE, http |-> FALSE]
        links == FlattenSeq([k \in DOMAIN fields |->
                     IF fields[k].text THEN fields[k].links ELSE <<garbled>>])
    IN SelectSeq(links, LAMBDA l : l.next)

\* next_attestation_page: the first of them counts.
NextPage(fields) ==
    LET link == Telling(fields)[1]
    IN IF fields # <<>> /\ LinkBytes(fields) > MaxLink THEN [ok |-> FALSE]
       ELSE IF Telling(fields) = <<>> THEN [ok |-> TRUE, last |-> TRUE]
       ELSE IF ~link.http THEN [ok |-> FALSE]
       ELSE IF Len(link.cursors) # 1 THEN [ok |-> FALSE]
       ELSE IF CursorSize[link.cursors[1]] \notin 1..MaxCursor THEN [ok |-> FALSE]
       ELSE [ok |-> TRUE, last |-> FALSE, url |-> NextUrl(link)]

PageLimit == IF MaxTotal - bytes < MaxPage THEN MaxTotal - bytes ELSE MaxPage

\* read_provenance_body and the decoding of the page.
Readable(page) ==
    /\ page.declared <= PageLimit /\ page.size <= PageLimit /\ page.complete
    /\ page.json /\ Len(page.bundles) <= MaxEntries

\* One page is asked for, unless a limit is reached or it was asked for before.
Askable == Cardinality(visited) < MaxPages /\ bytes < MaxTotal /\ url \notin visited
AskPage ==
    /\ visited' = visited \cup {url}
    /\ requests' = Append(requests, [url |-> url, token |-> target.token])
    /\ UNCHANGED <<target, url, bytes, bundles>>

\* The page arrives and leads to another, or is the last one.
Keep(page, next) ==
    /\ bytes' = bytes + page.size /\ bundles' = bundles \o page.bundles
    /\ url' = IF next.last THEN url ELSE next.url
    /\ UNCHANGED <<target, visited, requests>>

-----------------------------------------------------------------------------
(* verify_bundle. *)

\* A present modern claim is authoritative: nothing falls back from it.
SourceExtension(claim) == IF claim.modern # "absent" THEN claim.modern ELSE claim.legacy

\* The statement is one signed in-toto statement about the digest.
Stated(b, digest) ==
    /\ b.parses /\ b.dsse /\ b.signatures = 1 /\ b.payload /\ b.statement
    /\ digest \in b.subjects

IdentityHolds(b, policy, signer) ==
    /\ b.identified /\ b.issuer = policy.issuer
    /\ IF signer # None THEN b.identity.name = signer
       ELSE /\ b.identity.repository = policy.repository
            /\ b.identity.workflow = policy.workflow
            /\ b.identity.ref \in Refs
            /\ policy.ref \in {None, b.identity.ref}
            /\ b.identity.ref = SourceExtension(b.ref)

\* source_extensions: where the certificate says the source came from.
CertificateSource(b, policy) ==
    /\ b.certificate
    /\ SourceExtension(b.repository) = policy.repository
    /\ SourceExtension(b.ref) \in Refs
    /\ policy.ref \in {None, SourceExtension(b.ref)}
    /\ SourceExtension(b.commit) \in Commits

RequireSource(material, policy, ref) ==
    material.repository = policy.repository /\ material.ref = ref

\* source_commit: the commit the predicate names, in either of its forms.
NamedCommit(p, policy, ref) ==
    LET sources == SelectSeq(p.materials, LAMBDA m : RequireSource(m, policy, ref))
        material == IF p.v1 THEN sources ELSE SelectSeq(SubSeq(p.materials, 1, 1), LAMBDA m : RequireSource(m, policy, ref))
    IN IF material = <<>> THEN "absent" ELSE material[1].commit
SourceCommit(p, policy, ref, commit) ==
    /\ p.path = policy.workflow
    /\ p.v1 => p.repository = policy.repository /\ p.ref = ref
    /\ NamedCommit(p, policy, ref) = commit
    /\ policy.commit \in {None, commit}

VerifyBundle(b, digest, policy, signer) ==
    /\ Stated(b, digest)
    /\ b.signed
    /\ IdentityHolds(b, policy, signer)
    /\ CertificateSource(b, policy)
    /\ SourceCommit(b.predicate, policy, SourceExtension(b.ref), SourceExtension(b.commit))

VerifyImageProvenance(digest, policy, signer) ==
    \E k \in DOMAIN bundles : VerifyBundle(bundles[k], digest, policy, signer)
=============================================================================
