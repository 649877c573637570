-------------------------- MODULE DeploymentCases --------------------------
(***************************************************************************)
(* Small deployments, and what servers answer about them, for TLC.  Each   *)
(* set holds the usual values (odd = 0) and what differs from them in one  *)
(* place (odd = 1); MaxFaults of the odd ones meet in a behaviour.         *)
(***************************************************************************)
EXTENDS RustDeployment, TLC

MCHub == [x \in {"docker.io/app"} |-> "app"]
MCCursorSize == [empty |-> 0, a |-> 1, b |-> 1, long |-> 9]

Usual(r) == r @@ [odd |-> 0]
Odd(r) == r @@ [odd |-> 1]
WithOdd(usual, odd) == {Usual(u) : u \in usual} \cup {Odd(o) : o \in odd}

-----------------------------------------------------------------------------
(* Deployments. *)

Policy == [repository |-> "org/app", workflow |-> "build", ref |-> "none", commit |-> "none", issuer |-> "github"]
ManagerPolicy == [Policy EXCEPT !.repository = "org/manager"]
Image(repository, digest) == [kind |-> "literal", repository |-> repository, tag |-> "none", digest |-> digest]
NoImage == [kind |-> "absent", repository |-> "", tag |-> "none", digest |-> "none"]
App == Image("app", "d1")
Service(name, image) == [name |-> name, image |-> image]

\* Compose files: the one approved first, and those with one place changed.
Compose == [valid |-> TRUE, services |-> <<Service("web", App), Service("job", Image("other", "none"))>>]
Composes ==
    {Compose, [Compose EXCEPT !.valid = FALSE],
     [Compose EXCEPT !.services[1].name = "not a string"],
     [Compose EXCEPT !.services[1].image = NoImage],
     [Compose EXCEPT !.services[2].image.kind = "variable"],
     [Compose EXCEPT !.services[2].image.kind = "scalar"],
     [Compose EXCEPT !.services[1].image.tag = "tag"],
     [Compose EXCEPT !.services[1].image.tag = "bad"],
     [Compose EXCEPT !.services[1].image.digest = "none"],
     [Compose EXCEPT !.services[1].image.digest = "short"],
     [Compose EXCEPT !.services[1].image.repository = "docker.io/app"],
     [Compose EXCEPT !.services[1].image.repository = "apple"],
     [Compose EXCEPT !.services[2].image = Image("app", "d2")],
     [Compose EXCEPT !.services[2].image = Image("app", "none")]}

MCFiles == [one |-> Compose, two |-> [Compose EXCEPT !.services[1].image.digest = "d2"],
            broken |-> [Compose EXCEPT !.valid = FALSE]]

Up(file, sha) == [action |-> "compose_up", file |-> file, commit |-> "commit", sha |-> sha,
                  services |-> {}, image |-> NoImage]
Boot(digest) == [action |-> "compose_manager_started", file |-> "none", commit |-> "none", sha |-> "none",
                 services |-> {}, image |-> Image("manager", digest)]
Log == <<Boot("d3"), Up("f", "one")>>
ActionLogs ==
    {<<>>, <<Boot("d3")>>, <<Up("f", "one")>>,
     <<Boot("d4"), Boot("d3"), Up("f", "one")>>, <<Boot("d3"), Boot("d4"), Up("f", "one")>>,
     <<Boot("d3"), Up("f", "two"), Up("f", "one")>>, <<Boot("d3"), Up("f", "one"), Up("f", "two")>>,
     <<Boot("d3"), Up("f", "one"), Up("g", "two")>>,
     <<Boot("d3"), [Up("f", "one") EXCEPT !.services = {"job"}]>>,
     <<Boot("d3"), [Up("f", "one") EXCEPT !.services = {"web"}]>>,
     <<Boot("d3"), [Up("f", "one") EXCEPT !.services = {"absent"}]>>,
     <<Boot("d3"), [Up("f", "one") EXCEPT !.commit = "invalid"]>>,
     <<Boot("d3"), [Up("f", "one") EXCEPT !.sha = "invalid"]>>,
     <<Boot("d3"), Up("invalid", "one")>>,
     <<[Boot("d3") EXCEPT !.image = NoImage], Up("f", "one")>>,
     <<[Boot("d3") EXCEPT !.image.digest = "none"], Up("f", "one")>>,
     <<[Boot("d3") EXCEPT !.image.repository = "other"], Up("f", "one")>>}

NoSigners == [k \in {} |-> "none"]
Measured == [mode |-> "measured", compose |-> Compose, actions |-> <<>>, file |-> "any",
             policies |-> <<[key |-> "app", policy |-> Policy]>>, signers |-> NoSigners,
             manager |-> [key |-> "manager", policy |-> ManagerPolicy, signer |-> "none"],
             api |-> "default", token |-> TRUE, gpuRequired |-> FALSE]
Managed == [Measured EXCEPT !.mode = "managed", !.actions = Log, !.api = "custom"]
Options(c) ==
    {[c EXCEPT !.policies = <<>>], [c EXCEPT !.api = "invalid"],
     [c EXCEPT !.api = IF c.api = "default" THEN "custom" ELSE "default"],
     [c EXCEPT !.signers = [k \in {"app"} |-> "release"]],
     [c EXCEPT !.signers = [k \in {"typo"} |-> "release"]],
     [c EXCEPT !.policies[1].key = "docker.io/app"],
     [c EXCEPT !.policies[1].policy.repository = "org"],
     [c EXCEPT !.policies[1].policy.ref = "refs/main"],
     [c EXCEPT !.policies[1].policy.ref = "refs/old"],
     [c EXCEPT !.policies[1].policy.commit = "c1"],
     [c EXCEPT !.policies[1].policy.commit = "c2"],
     [c EXCEPT !.gpuRequired = TRUE], [c EXCEPT !.file = "f"]}
MCDeployments ==
    WithOdd({Measured, Managed},
            Options(Measured) \cup Options(Managed)
            \cup {[Measured EXCEPT !.compose = c] : c \in Composes \ {Compose}}
            \cup {[Managed EXCEPT !.actions = l, !.file = f] : l \in ActionLogs, f \in {"any", "f"}})

-----------------------------------------------------------------------------
(* Answers. *)

File == [sent |-> TRUE, success |-> TRUE, declared |-> 1, size |-> 1, complete |-> TRUE, sha |-> "one"]
MCFileAnswers ==
    WithOdd({File, [File EXCEPT !.sha = "two"]},
            {[File EXCEPT !.sent = FALSE], [File EXCEPT !.success = FALSE],
             [File EXCEPT !.declared = 2], [File EXCEPT !.size = 2],
             [File EXCEPT !.complete = FALSE], [File EXCEPT !.sha = "broken"]})

Claim(value) == [modern |-> value, legacy |-> "absent"]
Bundle(repository, digest) ==
    [parses |-> TRUE, dsse |-> TRUE, signatures |-> 1, payload |-> TRUE, statement |-> TRUE,
     subjects |-> {digest}, signed |-> TRUE, identified |-> TRUE, issuer |-> "github",
     identity |-> [name |-> "self", repository |-> repository, workflow |-> "build", ref |-> "refs/main"],
     certificate |-> TRUE, repository |-> Claim(repository), ref |-> Claim("refs/main"),
     commit |-> Claim("c1"),
     predicate |-> [v1 |-> TRUE, path |-> "build", repository |-> repository, ref |-> "refs/main",
                    materials |-> <<[repository |-> repository, ref |-> "refs/main", commit |-> "c1"]>>]]
GoodBundle == Bundle("org/app", "d1")
ForkSource == [repository |-> "org/fork", ref |-> "refs/main", commit |-> "c2"]
OddBundles ==
    {[GoodBundle EXCEPT !.parses = FALSE], [GoodBundle EXCEPT !.dsse = FALSE], [GoodBundle EXCEPT !.signatures = 2],
     [GoodBundle EXCEPT !.payload = FALSE], [GoodBundle EXCEPT !.statement = FALSE],
     [GoodBundle EXCEPT !.subjects = {"d2"}], [GoodBundle EXCEPT !.subjects = {"d1", "d2"}],
     [GoodBundle EXCEPT !.signed = FALSE], [GoodBundle EXCEPT !.identified = FALSE],
     [GoodBundle EXCEPT !.issuer = "other"], [GoodBundle EXCEPT !.identity.name = "release"],
     [GoodBundle EXCEPT !.identity.repository = "org/fork"], [GoodBundle EXCEPT !.identity.workflow = "test"],
     [GoodBundle EXCEPT !.identity.ref = "main"], [GoodBundle EXCEPT !.identity.ref = "refs/old"],
     [GoodBundle EXCEPT !.certificate = FALSE],
     [GoodBundle EXCEPT !.repository = Claim("org/fork")],
     [GoodBundle EXCEPT !.repository = [modern |-> "absent", legacy |-> "org/app"]],
     [GoodBundle EXCEPT !.repository = [modern |-> "org/fork", legacy |-> "org/app"]],
     [GoodBundle EXCEPT !.repository = [modern |-> "malformed", legacy |-> "org/app"]],
     [GoodBundle EXCEPT !.ref = Claim("refs/old")], [GoodBundle EXCEPT !.commit = Claim("c2")],
     [GoodBundle EXCEPT !.ref = Claim("refs/old"), !.identity.ref = "refs/old", !.predicate.ref = "refs/old",
                  !.predicate.materials[1].ref = "refs/old"],
     [GoodBundle EXCEPT !.commit = Claim("c2"), !.predicate.materials[1].commit = "c2"],
     [GoodBundle EXCEPT !.commit = Claim("short")], [GoodBundle EXCEPT !.commit = Claim("absent")],
     [GoodBundle EXCEPT !.predicate.v1 = FALSE], [GoodBundle EXCEPT !.predicate.path = "test"],
     [GoodBundle EXCEPT !.predicate.repository = "org/fork"], [GoodBundle EXCEPT !.predicate.ref = "refs/old"],
     [GoodBundle EXCEPT !.predicate.materials = <<>>],
     [GoodBundle EXCEPT !.predicate.materials[1].commit = "c2"],
     [GoodBundle EXCEPT !.predicate.materials = <<ForkSource, @[1]>>],
     [GoodBundle EXCEPT !.predicate.v1 = FALSE, !.predicate.materials = <<ForkSource, @[1]>>]}

Page(list) == [sent |-> TRUE, success |-> TRUE, links |-> <<>>, declared |-> 1, size |-> 1,
               complete |-> TRUE, json |-> TRUE, bundles |-> list]
Link(cursors) == [next |-> TRUE, http |-> TRUE, cursors |-> cursors,
                  url |-> [origin |-> "elsewhere", repository |-> "org/fork", digest |-> "d4", cursor |-> "none"]]
Field(links) == [size |-> 1, text |-> TRUE, links |-> links]
More(cursor) == [Page(<<>>) EXCEPT !.links = <<Field(<<Link(<<cursor>>)>>)>>]
MCPages ==
    WithOdd({Page(<<GoodBundle>>), Page(<<Bundle("org/manager", "d3")>>)},
            {Page(<<b>>) : b \in OddBundles}
            \cup {Page(<<b, GoodBundle>>) : b \in {[GoodBundle EXCEPT !.signed = FALSE], [GoodBundle EXCEPT !.subjects = {"d2"}]}}
            \cup {More(c) : c \in {"empty", "a", "b", "long"}}
            \cup {[Page(<<GoodBundle>>) EXCEPT !.sent = FALSE], [Page(<<GoodBundle>>) EXCEPT !.success = FALSE],
                  [Page(<<GoodBundle>>) EXCEPT !.declared = 3], [Page(<<GoodBundle>>) EXCEPT !.size = 2],
                  [Page(<<GoodBundle>>) EXCEPT !.size = 3], [Page(<<GoodBundle>>) EXCEPT !.complete = FALSE],
                  [Page(<<GoodBundle>>) EXCEPT !.json = FALSE], Page(<<>>), Page(<<GoodBundle, GoodBundle, GoodBundle>>),
                  [More("a") EXCEPT !.size = 2],
                  [More("a") EXCEPT !.links[1].links[1].http = FALSE],
                  [More("a") EXCEPT !.links[1].links[1].cursors = <<>>],
                  [More("a") EXCEPT !.links[1].links[1].cursors = <<"a", "b">>],
                  [More("a") EXCEPT !.links[1].links[1].next = FALSE],
                  [More("a") EXCEPT !.links[1].text = FALSE],
                  [More("a") EXCEPT !.links = <<Field(<<>>), @[1]>>],
                  [More("a") EXCEPT !.links = <<Field(<<>>), Field(<<>>), @[1]>>]})

-----------------------------------------------------------------------------
(* GPU evidence. *)

Payload == [kind |-> "object", nonce |-> "n"]
MCPayloads ==
    WithOdd({Payload, [kind |-> "absent", nonce |-> "n"]},
            {[Payload EXCEPT !.nonce = "old"], [Payload EXCEPT !.kind = "garbled"]})
Token == [alg |-> "ES384", kid |-> "k", key |-> "nvidia", issuer |-> "nvidia", claims |-> TRUE,
          exp |-> 3, nbf |-> 1, iat |-> 1, nonce |-> "n", result |-> TRUE]
OddTokens ==
    {[Token EXCEPT !.alg = "HS256"], [Token EXCEPT !.kid = "none"], [Token EXCEPT !.key = "other"],
     [Token EXCEPT !.issuer = "other"], [Token EXCEPT !.claims = FALSE], [Token EXCEPT !.exp = 2],
     [Token EXCEPT !.exp = 1], [Token EXCEPT !.nbf = 2], [Token EXCEPT !.iat = 2],
     [Token EXCEPT !.nonce = "old"], [Token EXCEPT !.result = FALSE]}
Nras(t) == [sent |-> TRUE, success |-> TRUE, json |-> TRUE, schema |-> TRUE, token |-> t]
MCNrasAnswers ==
    WithOdd({Nras(Token)},
            {Nras(t) : t \in OddTokens}
            \cup {[Nras(Token) EXCEPT !.sent = FALSE], [Nras(Token) EXCEPT !.success = FALSE],
                  [Nras(Token) EXCEPT !.json = FALSE], [Nras(Token) EXCEPT !.schema = FALSE]})
KeySet(k) == [sent |-> TRUE, success |-> TRUE, json |-> TRUE, keys |-> k]
NvidiaKey == [kid |-> "k", key |-> "nvidia", usable |-> TRUE]
MCJwksAnswers ==
    WithOdd({KeySet({NvidiaKey})},
            {KeySet({}), KeySet({[NvidiaKey EXCEPT !.usable = FALSE]}), [KeySet({NvidiaKey}) EXCEPT !.sent = FALSE],
             [KeySet({NvidiaKey}) EXCEPT !.success = FALSE], [KeySet({NvidiaKey}) EXCEPT !.json = FALSE]})
=============================================================================
