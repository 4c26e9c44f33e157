------------------------------ MODULE PolicyText ------------------------------
(***************************************************************************)
(* What the policy reads out of text (crates/botrosterd/src/policy.rs): the  *)
(* globs of its rules, the destination of a url, and the policy it ships     *)
(* with.  PolicySession takes both as constants; this module computes them   *)
(* from the code and says what they promise.                                 *)
(*                                                                         *)
(* A url is a record [scheme, user, host, port, loud] of what is written     *)
(* ("loud": the host in capitals), or NotAUrl.  A host is a record           *)
(* [kind, of]: the four bytes of a "v4" address however they are spelled,    *)
(* the eight segments of a "v6" one, or the labels of a "name", the last     *)
(* one empty when a dot is left at its end.                                  *)
(***************************************************************************)
EXTENDS PolicySession

CONSTANTS NotAUrl,    \* text no url can be read from
          NoPort,     \* no port written, or the scheme's own
          Urls,       \* the urls the properties are tried on
          Names,      \* the commands globs are tried on, sequences of letters
          Wide        \* the letters of more than one byte

Web == {"http", "https"}

(***************************************************************************)
(* Globs.                                                                  *)
(***************************************************************************)
Star == "*"

From(s, i) == SubSeq(s, i, Len(s))

StartsWith(s, head) == Len(head) <= Len(s) /\ SubSeq(s, 1, Len(head)) = head
EndsWith(s, tail)   == Len(tail) <= Len(s) /\ From(s, Len(s) - Len(tail) + 1) = tail

Stars(pattern) == {i \in DOMAIN pattern : pattern[i] = Star}

Of(matches) == IF matches THEN "matches" ELSE "differs"

\* glob_match that compares the tail of a single star without its length.
RECURSIVE GlobOverlapping(_, _)
GlobOverlapping(pattern, value) ==
    IF Stars(pattern) = {} THEN Of(pattern = value)
    ELSE LET at   == CHOOSE i \in Stars(pattern) : \A j \in Stars(pattern) : i <= j
             head == SubSeq(pattern, 1, at - 1)
             tail == From(pattern, at + 1)
         IN  IF ~StartsWith(value, head) THEN "differs"
             ELSE IF Stars(tail) = {} THEN Of(EndsWith(value, tail))
             ELSE Of(\E i \in 1..(Len(value) + 1) : GlobOverlapping(tail, From(value, i)) = "matches")

\* glob_match: the text before the first star begins the value; with one more
\* star the rest of the pattern is tried on what remains, from every byte on
\* until it fits.  A letter of more than one byte cannot be cut: to try it from
\* within panics.  One star takes what is written, in any letters.
RECURSIVE GlobMatch(_, _)
GlobMatch(pattern, value) ==
    IF pattern = <<Star>> THEN "matches"
    ELSE IF Stars(pattern) = {} THEN Of(pattern = value)
    ELSE LET at   == CHOOSE i \in Stars(pattern) : \A j \in Stars(pattern) : i <= j
             head == SubSeq(pattern, 1, at - 1)
             tail == From(pattern, at + 1)
             rest == From(value, at)
             tried[i \in 1..(Len(rest) + 1)] ==
                LET here == GlobMatch(tail, From(rest, i)) IN
                IF here # "differs" \/ i > Len(rest) THEN here
                ELSE IF rest[i] \in Wide THEN "panics" ELSE tried[i + 1]
         IN  IF ~StartsWith(value, head) THEN "differs"
             ELSE IF Stars(tail) = {} THEN Of(EndsWith(rest, tail)) ELSE tried[1]

\* Rule::when on the command of shell.exec, as written and as it is applied.
CommandRule(action, pattern) ==
    [action |-> action, tools |-> {"shell.exec"},
     when   |-> [key |-> "command", glob |-> pattern,
                 values |-> {name \in Names : GlobMatch(pattern, name) = "matches"}]]

\* A rule whose glob panics on the argument of a call.
Panics(rule, call) ==
    /\ call.tool \in rule.tools /\ rule.when # NoMatch /\ "glob" \in DOMAIN rule.when
    /\ rule.when.key \in DOMAIN call.args
    /\ GlobMatch(rule.when.glob, call.args[rule.when.key]) = "panics"

\* What Hub::tool_call has of Policy::evaluate: a verdict, or no more than a
\* panic, which ends the task of the request and leaves the call unanswered.
\* The rules behind a deny that matches are not tried.
Outcome(p, call) ==
    IF /\ ~RefusedDestination(p, call)
       /\ \E i \in DOMAIN p.rules :
             /\ Panics(p.rules[i], call)
             /\ \A j \in 1..(i - 1) : ~(p.rules[j].action = "deny" /\ Matches(p.rules[j], call))
    THEN "panics" ELSE Evaluate(p, call)

(***************************************************************************)
(* Destinations.                                                           *)
(***************************************************************************)

\* url::Url::parse: the host in lower case, the scheme's own port dropped.
Parsed(url) ==
    [url EXCEPT !.loud = FALSE,
                !.port = IF <<url.scheme, url.port>> \in {<<"http", 80>>, <<"https", 443>>}
                         THEN NoPort ELSE url.port]

IsWeb(url) == url # NotAUrl /\ url.scheme \in Web

\* An origin without the port.
HostOrigin(url) ==
    IF ~IsWeb(url) THEN NoOrigin
    ELSE <<Parsed(url).scheme, Parsed(url).host, NoPort>>

\* url_origin: scheme, host and port of what was parsed, the user left out.
UrlOrigin(url) ==
    IF ~IsWeb(url) THEN NoOrigin
    ELSE <<Parsed(url).scheme, Parsed(url).host, Parsed(url).port>>

\* ipv4_private_reason: loopback, link-local, unspecified, private.
PrivateV4(a) ==
    \/ a[1] = 127
    \/ a[1] = 169 /\ a[2] = 254
    \/ \A i \in 1..4 : a[i] = 0
    \/ a[1] = 10
    \/ a[1] = 172 /\ a[2] \in 16..31
    \/ a[1] = 192 /\ a[2] = 168

\* ipv6_private_reason: ::1, ::, and two masks of the first segment.
PrivateV6(s) ==
    \/ \A i \in 1..7 : s[i] = 0 /\ s[8] \in {0, 1}
    \/ s[1] \div 64 = 65152 \div 64         \* s & 0xffc0 = 0xfe80
    \/ s[1] \div 512 = 64512 \div 512       \* s & 0xfe00 = 0xfc00

\* Ipv6Addr::to_ipv4_mapped: ::ffff:a.b.c.d and nothing else.
Mapped(s) == (\A i \in 1..5 : s[i] = 0) /\ s[6] = 65535

FourBytes(s) == <<s[7] \div 256, s[7] % 256, s[8] \div 256, s[8] % 256>>

\* One dot is taken off the end of the name, and only one.
Loopback(labels) ==
    LET name == IF Len(labels) > 1 /\ labels[Len(labels)] = ""
                THEN SubSeq(labels, 1, Len(labels) - 1) ELSE labels
    IN  name # <<>> /\ name[Len(name)] = "localhost"

\* private_destination_reason: a literal host that is not on the internet.
PrivateDestination(url) ==
    /\ IsWeb(url)
    /\ LET host == Parsed(url).host IN
       \/ host.kind = "v4" /\ PrivateV4(host.of)
       \/ host.kind = "v6" /\ IF Mapped(host.of) THEN PrivateV4(FourBytes(host.of))
                              ELSE PrivateV6(host.of)
       \/ host.kind = "name" /\ Loopback(host.of)

(***************************************************************************)
(* The policies a hub starts from.                                         *)
(***************************************************************************)
Rule(action, tool) == [action |-> action, tools |-> {tool}, when |-> NoMatch]

\* Policy::default: reads are free, changes ask.
DefaultRules ==
    <<Rule("allow", "fs.read"), Rule("allow", "fs.list"), Rule("ask", "fs.write"),
      Rule("ask", "shell.exec"), Rule("ask", "browser.open"),
      Rule("allow", "browser.read"), Rule("allow", "browser.links"),
      Rule("allow", "browser.snapshot"), Rule("allow", "browser.screenshot"),
      Rule("allow", "browser.frame"), Rule("ask", "browser.click"),
      Rule("ask", "browser.fill"), Rule("ask", "browser.click_at"),
      Rule("ask", "browser.type"), Rule("ask", "browser.key"),
      Rule("allow", "browser.scroll"), Rule("allow", "bot.list"),
      Rule("ask", "bot.send"), Rule("allow", "secret.request")>>

\* "1", and only "1", in BOTROSTER_ALLOW_PRIVATE_BROWSER_OPEN lifts the refusal.
PrivateAllowed(variable) == variable = "1"

Shipped(variable) ==
    [rules |-> DefaultRules, fallback |-> "ask", grants |-> {},
     privateAllowed |-> PrivateAllowed(variable)]

-----------------------------------------------------------------------------
\* Where a request of a url ends up, whatever else the text says: the port the
\* client connects to is part of it, the user and the capitals are not.
EffectivePort(url) ==
    IF url.port # NoPort THEN url.port ELSE IF url.scheme = "http" THEN 80 ELSE 443

Destination(url) == <<url.scheme, url.host, EffectivePort(url)>>

\* The ranges the comments name, as prefixes of the bytes of an address.
Ranges4 == {<<<<127, 0, 0, 0>>, 8>>, <<<<169, 254, 0, 0>>, 16>>, <<<<0, 0, 0, 0>>, 32>>,
            <<<<10, 0, 0, 0>>, 8>>, <<<<172, 16, 0, 0>>, 12>>, <<<<192, 168, 0, 0>>, 16>>}

Zeros(n) == [i \in 1..n |-> 0]
Bytes(s) == [i \in 1..16 |-> IF i % 2 = 1 THEN s[(i + 1) \div 2] \div 256
                             ELSE s[i \div 2] % 256]

Ranges6 == {<<Zeros(15) \o <<1>>, 128>>, <<Zeros(16), 128>>,
            <<<<254, 128>> \o Zeros(14), 10>>, <<<<252, 0>> \o Zeros(14), 7>>}
           \cup {<<Zeros(10) \o <<255, 255>> \o r[1], 96 + r[2]>> : r \in Ranges4}

\* The address agrees with the network in its first "bits" bits.
InRange(bytes, range) ==
    \A i \in DOMAIN bytes :
        LET left == range[2] - 8 * (i - 1)
            unit == IF left >= 8 THEN 1 ELSE IF left <= 0 THEN 256 ELSE 2 ^ (8 - left)
        IN  bytes[i] \div unit = range[1][i] \div unit

OffTheInternet(host) ==
    \/ host.kind = "v4" /\ \E r \in Ranges4 : InRange(host.of, r)
    \/ host.kind = "v6" /\ \E r \in Ranges6 : InRange(Bytes(host.of), r)
    \/ host.kind = "name" /\ \E n \in {Len(host.of) - 1, Len(host.of)} \ {0} :
                                /\ host.of[n] = "localhost"
                                /\ From(host.of, n + 1) \in {<<>>, <<"">>}

Opening(url) == [tool |-> BrowserOpen, args |-> [url |-> url]]

WebUrls == {url \in Urls : IsWeb(url)}
Inside  == {url \in WebUrls : OffTheInternet(url.host)}

\* An "always" about a url covers the destination it was given for, and no
\* other scheme, host or port, however the urls are written; and it covers it
\* in every spelling (url_origin, allow_origin_from_now_on).
AnAnswerIsForOneDestination ==
    LET reached == {Destination(a.args["url"]) :
                      a \in {c \in answered : /\ c.tool = BrowserOpen
                                              /\ CallOrigin(c) # NoOrigin}}
        anywhere == \E a \in answered : a.tool = BrowserOpen /\ CallOrigin(a) = NoOrigin
    IN  \A url \in WebUrls \ Inside :
           LET call == Opening(url) IN
           Evaluate(WithoutGrants, call) = "ask" =>
               /\ Destination(url) \in reached => Evaluate(policy, call) = "allow"
               /\ Evaluate(policy, call) = "allow" =>
                      Destination(url) \in reached \/ anywhere

\* With the refusal on, no rule and no answer opens a host inside the ranges the
\* comments name, and the refusal never takes a host outside them.
RefusedExactlyInTheRanges ==
    ~policy.privateAllowed =>
        /\ \A url \in Inside : Evaluate(policy, Opening(url)) = "deny"
        /\ \A url \in WebUrls \ Inside :
               Evaluate(policy, Opening(url)) = "deny" =>
                   SomeRule("deny", Opening(url)) \/ policy.fallback = "deny"

\* The names that are a pattern's letters in order, with any run of letters for
\* each star ("matching any run of characters").
RECURSIVE AnyRun(_, _)
AnyRun(pattern, name) ==
    IF pattern = <<>> THEN name = <<>>
    ELSE IF Head(pattern) = Star
         THEN \/ AnyRun(Tail(pattern), name)
              \/ name # <<>> /\ AnyRun(pattern, Tail(name))
         ELSE /\ name # <<>> /\ Head(name) = Head(pattern)
              /\ AnyRun(Tail(pattern), Tail(name))

\* A rule narrowed to a glob decides exactly the commands the glob describes
\* (glob_match, Rule::matches), but for one kind: two stars and a letter of more
\* than one byte may come to no verdict at all, and then nothing is let through.
GlobsMatchAnyRun ==
    \A i \in DOMAIN policy.rules :
        LET when == policy.rules[i].when IN
        (when # NoMatch /\ "glob" \in DOMAIN when) =>
            \A name \in Names :
                LET outcome == Outcome(policy, [tool |-> "shell.exec", args |-> [command |-> name]]) IN
                \/ outcome = IF AnyRun(when.glob, name) THEN policy.rules[i].action
                             ELSE policy.fallback
                \/ outcome = "panics" /\ Cardinality(Stars(when.glob)) > 1 /\ \E k \in DOMAIN name : name[k] \in Wide

\* A url, an address and a pattern decide by what they mean, however they are written.
TextIsReadAsMeant == AnAnswerIsForOneDestination /\ RefusedExactlyInTheRanges /\ GlobsMatchAnyRun

=============================================================================
