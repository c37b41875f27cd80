---------------------------- MODULE Subscriptions ----------------------------
(***************************************************************************)
(* Serving a subscription (worker.ts, handlers/subscription.ts): the form  *)
(* is saved, a client asks for a kind of subscription under one of the     *)
(* names of the deployment, and the generator for both answers.            *)
(*                                                                         *)
(* What a request asks for lives in a global of the isolate                *)
(* (settings/settings.ts): init puts it there, the handler waits for the   *)
(* settings, then reads it.  An answer is kept as the generator that was   *)
(* called and the settings it saw; what it generates is computed from      *)
(* them, by the modules of the generators.                                 *)
(***************************************************************************)
EXTENDS Offers, ClientConfig, RawLinks, WireguardArchive

CONSTANTS
    Requests,        \* the requests that occur
    MaxInFlight,     \* how many are in flight at once
    Hosts,           \* the names the deployment answers to
    Forms,           \* the forms an operator may submit
    Default,         \* the settings before that
    FragmentLengths, \* see XrayConfigs
    Lengths          \* of the texts in a WireGuard archive

VARIABLES
    settings,   \* what is stored
    globals,    \* globalSettings: what the request initialised last asks for
    phase,      \* where each request is
    asked,      \* what each request asks for
    answer      \* what it was answered

vars == <<settings, globals, phase, asked, answer>>

Xray    == INSTANCE XrayConfigs
SingBox == INSTANCE SingBoxConfigs
Clash   == INSTANCE ClashConfigs

Kinds   == {"normal", "raw", "fragment", "warp", "warp-pro", "share-settings", "other"}
Clients == {"xray", "xray-knocker", "sing-box", "clash", "wireguard", "amnezia", "other"}
Asks    == [kind : Kinds, client : Clients, host : Hosts]

(***************************************************************************)
(* handleSubscriptions: the switch over kinds and, within each, clients.   *)
(* Whatever it does not list takes the fallback.                           *)
(***************************************************************************)
Listed ==
    ({"normal"} \X {"xray", "sing-box", "clash"}) \cup
    ({"raw"} \X {"xray", "sing-box"}) \cup
    ({"fragment"} \X {"xray", "sing-box"}) \cup
    ({"warp"} \X {"xray", "sing-box", "clash", "wireguard"}) \cup
    ({"warp-pro"} \X {"xray", "xray-knocker", "clash", "amnezia"})

Generator_FallsThrough(kind, client) ==    \* mutant: a case without its return
    IF kind = "fragment" /\ client = "clash" THEN [core |-> "clash", of |-> "warp"]
    ELSE IF <<kind, client>> \in Listed
         THEN [core |-> IF kind = "raw" THEN "raw" ELSE IF client \in {"wireguard", "amnezia"} THEN "archive"
                        ELSE IF client = "xray-knocker" THEN "xray" ELSE client, of |-> kind]
         ELSE [core |-> IF kind = "share-settings" THEN "settings" ELSE "fallback", of |-> kind]

Generator(kind, client) ==
    CASE kind = "share-settings" -> [core |-> "settings", of |-> kind]
      [] <<kind, client>> \in Listed ->
           [core |-> CASE kind = "raw" -> "raw"
                       [] client \in {"wireguard", "amnezia"} -> "archive"
                       [] client \in {"xray", "xray-knocker"} -> "xray"
                       [] OTHER -> client,
            of   |-> kind]
      [] OTHER -> [core |-> "fallback", of |-> kind]

\* Tunnels need accounts: two, for a tunnel in a tunnel, or one.
AccountsNeeded(g) ==
    IF g.of \in {"warp", "warp-pro"} THEN IF g.core = "archive" THEN 1 ELSE 2 ELSE 0

Result(g, s) ==
    IF g.core = "fallback" THEN [status |-> "fallback", by |-> g, settings |-> s]
    ELSE IF AccountsNeeded(g) > s.warpAccounts THEN [status |-> "error", by |-> g, settings |-> s]
    ELSE [status |-> "ok", by |-> g, settings |-> s]

Init ==
    /\ settings = Default
    /\ globals = None
    /\ phase = [r \in Requests |-> "new"]
    /\ asked = [r \in Requests |-> None]
    /\ answer = [r \in Requests |-> None]

\* The operator submits a form; one that does not pass is refused.  One form is enough.
Save ==
    /\ settings = Default /\ globals = None
    /\ \E form \in Forms : ValidateSettings(form) /\ settings' = form
    /\ UNCHANGED <<globals, phase, asked, answer>>

\* init, up to the wait for the settings: what the request asks for becomes the globals.
Arrive(r) ==
    /\ phase[r] = "new" /\ Cardinality({q \in Requests : phase[q] = "waiting"}) < MaxInFlight
    /\ \E ask \in Asks :
         /\ globals' = ask
         /\ asked' = [asked EXCEPT ![r] = ask]
    /\ phase' = [phase EXCEPT ![r] = "waiting"]
    /\ UNCHANGED <<settings, answer>>

\* The settings are there: the handler reads the globals and calls the generator.
Serve(r) ==
    /\ phase[r] = "waiting"
    /\ answer' = [answer EXCEPT ![r] =
                    Result(Generator(globals.kind, globals.client),
                           [settings EXCEPT !.mainDomain = globals.host])]
    /\ phase' = [phase EXCEPT ![r] = "answered"]
    /\ UNCHANGED <<settings, globals, asked>>

\* KV refuses the settings, or a domain cannot be resolved: an error page.
Fail(r) ==
    /\ phase[r] = "waiting"
    /\ answer' = [answer EXCEPT ![r] =
                    [Result(Generator(globals.kind, globals.client),
                            [settings EXCEPT !.mainDomain = globals.host]) EXCEPT !.status = "error"]]
    /\ phase' = [phase EXCEPT ![r] = "answered"]
    /\ UNCHANGED <<settings, globals, asked>>

Next == Save \/ \E r \in Requests : Arrive(r) \/ Serve(r) \/ Fail(r)
Spec == Init /\ [][Next]_vars
-----------------------------------------------------------------------------
Ok(r) == answer[r] # None /\ answer[r].status = "ok"

\* The configurations of an answer.
Configs(a) ==
    LET s == a.settings  kind == a.by.of
    IN  CASE a.by.core = "xray" ->
               IF kind \in {"warp", "warp-pro"} THEN Xray!GetXrWarpConfigs(s)
               ELSE Xray!GetXrCustomConfigs(s, kind = "fragment")
          [] a.by.core = "sing-box" ->
               {IF kind = "warp" THEN SingBox!GetSbWarpConfig(s) ELSE SingBox!GetSbCustomConfig(s, kind = "fragment")}
          [] a.by.core = "clash" ->
               {IF kind = "normal" THEN Clash!GetClNormalConfig(s) ELSE Clash!GetClWarpConfig(s, kind = "warp-pro")}
          [] OTHER -> {}

(***************************************************************************)
(* Three things a form may say and validateSettings lets pass with which   *)
(* the generators cannot do; the README describes each.                    *)
(***************************************************************************)
Coherent(s) ==
    /\ s.customDomain # s.mainDomain
    /\ s.warpEndpoints # <<>>
    /\ \E i \in DOMAIN s.ports : IsHttps(s.ports[i]) /\ s.ports[i] # s.upstream.port

(***************************************************************************)
(* A configuration hangs together: its names are distinct, every name it   *)
(* uses is declared, and nothing in it needs itself, so that no server is  *)
(* dialled, nor its name looked up, through what can only be reached once  *)
(* it works.  About the tags that outbounds, groups, rules, DNS servers    *)
(* and rule sets refer to each other by, detours, dialers and resolvers.   *)
(***************************************************************************)
NamesHangTogether ==
    \A r \in Requests : Ok(r) /\ Coherent(answer[r].settings) =>
        \A c \in Configs(answer[r]) : DistinctTags(c) /\ Resolves(c) /\ Terminates(c)

(***************************************************************************)
(* What no rule claims leaves by a proxy, in every configuration that has  *)
(* one: about the final rule, the groups and what they choose from.  The   *)
(* configurations without the worker go out directly, as they are meant    *)
(* to; those with fragments for older clients are left out here.           *)
(***************************************************************************)
Serverless(c)  == c.final = Xray!DirectTag
ForOlder(a)    == a.by.core = "xray" /\ a.by.of = "fragment" /\ a.settings.clientCompat # "latest"
DefaultRouteProxied ==
    \A r \in Requests : Ok(r) /\ Coherent(answer[r].settings) /\ ~ForOlder(answer[r]) =>
        \A c \in Configs(answer[r]) : Serverless(c) \/ DefaultProxied(c)

(***************************************************************************)
(* All clients are offered the same servers: the generators repeat the     *)
(* same loops, and their results differ only in what a client cannot dial  *)
(* (Trojan without TLS, for Clash) and in the upstream, which Xray does    *)
(* not offer with fragments.                                               *)
(***************************************************************************)
Offered(s, of(_)) ==
    {[v EXCEPT !.place = 0] : v \in UNION {ToSet(of(Domains(s)[i])) : i \in DOMAIN Domains(s)}}

ServersAgree ==
    \A r \in Requests : Ok(r) /\ Coherent(answer[r].settings) =>
        LET s == answer[r].settings
            xray(fragment) == Offered(s, LAMBDA d : Xray!XrayServers(s, d, fragment))
            sing(fragment) == Offered(s, LAMBDA d : SingBox!SbServers(s, d, fragment))
            clash == Offered(s, LAMBDA d : Clash!ClServers(s, d))
            raw   == Offered(s, LAMBDA d : RawServers(s, d, "vless") \o RawServers(s, d, "trojan"))
            kind  == answer[r].by.of
        IN  /\ kind = "normal" => xray(FALSE) = sing(FALSE)
            /\ kind = "raw" => raw = xray(FALSE) /\ clash = {v \in raw : v.protocol = "trojan" => IsTLS(s, v)}
            /\ kind = "fragment" => xray(TRUE) = {v \in sing(TRUE) : v.host # s.upstream.server}

(***************************************************************************)
(* The chain proxy is dialled with the security and the transport its link *)
(* states, by every client, or not at all: about the three outbounds that  *)
(* are built from one link.  The links that a client is known to have no   *)
(* words for are left out, and described in the README: XHTTP for sing-box, *)
(* a tcp transport spelled raw with an HTTP header, reality without a      *)
(* short id, Shadowsocks with a transport.                                 *)
(***************************************************************************)
Stated(link) ==
    LET security  == IF link.security = None THEN "none" ELSE link.security
        transport == IF link.type \in {"tcp", "raw"} THEN IF link.header = "http" THEN "http" ELSE "tcp" ELSE link.type
    IN  IF link.protocol \in {"http", "socks"} THEN Plain ELSE Dial(security, transport)

Expressible(link, core) ==
    /\ core # "xray" => /\ link.protocol # "ss"
                        /\ link.security = "reality" => link.keys
                        /\ ~(link.type = "raw" /\ link.header = "http")
    /\ core = "sing-box" => link.type # "xhttp"

ChainDialledAsStated ==
    \A r \in Requests : Ok(r) =>
        LET link == answer[r].settings.chain  core == answer[r].by.core
            dialled == CASE core = "xray" -> Xray!ChainDial(link)
                         [] core = "sing-box" -> SingBox!SbChainDial(link)
                         [] core = "clash" -> Clash!ClChainDial(link)
        IN  core \in {"xray", "sing-box", "clash"} /\ answer[r].by.of \in {"normal", "fragment"} /\ link # None
              => (Expressible(link, core) => dialled = Stated(link))

(***************************************************************************)
(* All clients reach the same: the servers they are offered and, where a   *)
(* client can express it, the chain proxy as its link states it.           *)
(***************************************************************************)
ClientsAgree == ServersAgree /\ ChainDialledAsStated

(***************************************************************************)
(* A request is answered with what it asks for, under the name it came to, *)
(* or not at all: neither what another request in the isolate asks for nor *)
(* another kind of subscription.  settings.ts:37 calls the globals         *)
(* request-scoped, and subscription.ts:14 tells of a switch that fell      *)
(* through to the next kind.  It fails for requests that overlap: the      *)
(* globals are the isolate's, and are read after an await.                 *)
(***************************************************************************)
CoreOf(client) ==
    CASE client \in {"xray", "xray-knocker"} -> "xray"
      [] client \in {"wireguard", "amnezia"} -> "archive"
      [] OTHER -> client

AnsweredOwn(r) ==
    Ok(r) =>
        /\ answer[r].by.of = asked[r].kind
        /\ answer[r].by.core \in {CoreOf(asked[r].client), "raw", "settings"}
        /\ answer[r].by.core = "settings" => asked[r].kind = "share-settings"
        /\ answer[r].settings.mainDomain = asked[r].host

AnswersOwnRequest == \A r \in Requests : AnsweredOwn(r)

(***************************************************************************)
(* The texts that are not configurations can be read: a link to the        *)
(* deployment is alone on its line whatever the operator appends, and the  *)
(* directory of an archive leads to its files.                             *)
(***************************************************************************)
OwnLinks(s) == Len(RawLinksOf(s, "vless")) + Len(RawLinksOf(s, "trojan"))

TextsReadable ==
    \A r \in Requests : Ok(r) =>
        LET s == answer[r].settings  text == GetURLConfigs(s)
            archive == GetWireguardConfigs(s.warpEndpoints, Lengths, answer[r].by.of = "warp-pro")
        IN  /\ answer[r].by.core = "raw" => \A i \in 1..OwnLinks(s) : Alone(text, i)
            /\ answer[r].by.core = "archive" => Readable(archive, WireguardEntries(s.warpEndpoints, Lengths, answer[r].by.of = "warp-pro"))
=============================================================================
