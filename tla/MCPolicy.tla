------------------------------ MODULE MCPolicy ------------------------------
(* Instances of PolicySession: every policy of up to three rules drawn from a *)
(* small set, every fallback, and the policies the hub ships with, over calls *)
(* with and without arguments.                                                *)
EXTENDS PolicyText

Name(labels) == [kind |-> "name", of |-> labels]
V4(a)        == [kind |-> "v4", of |-> a]
V6(s)        == [kind |-> "v6", of |-> s]

U(scheme, host) == [scheme |-> scheme, user |-> FALSE, host |-> host,
                    port |-> NoPort, loud |-> FALSE]

Site  == U("https", Name(<<"a", "test">>))
Other == U("https", Name(<<"b", "test">>))
Here  == U("http", V4(<<127, 0, 0, 1>>))

\* The urls the calls of the rule instances carry.
Few == {Site, [Site EXCEPT !.port = 443, !.loud = TRUE], [Site EXCEPT !.port = 80],
        Other, Here, NotAUrl}

\* The urls tried on the shipped policies: spellings of one site, and hosts at
\* both ends of every range.
Sites == {[Site EXCEPT !.port = p, !.loud = TRUE, !.user = TRUE] :
             p \in {NoPort, 80, 443, 8443}}
         \cup {[Site EXCEPT !.scheme = "http", !.port = p] : p \in {NoPort, 80, 443}}

Hosts == {V4(a) : a \in {<<126, 255, 255, 255>>, <<127, 0, 0, 1>>, <<169, 254, 169, 254>>,
                         <<169, 253, 0, 1>>, <<0, 0, 0, 0>>, <<10, 9, 8, 7>>,
                         <<172, 15, 255, 255>>, <<172, 31, 255, 255>>, <<172, 32, 0, 0>>,
                         <<192, 168, 1, 1>>}}
         \cup {V6(<<f, 0, 0, 0, 0, 0, 0, 1>>) : f \in {0, 64511, 65023, 65024, 65151,
                                                      65215, 65216}}
         \cup {V6(<<0, 0, 0, 0, 0, m, 32512, 1>>) : m \in {0, 65535}}
         \cup {Name(n) : n \in {<<"localhost", "">>, <<"a", "localhost">>,
                                <<"localhost", "", "">>, <<"localhost", "test">>}}

MCUrls == Few \cup Sites \cup {U("http", h) : h \in Hosts}

MCOriginOf    == [u \in MCUrls |-> UrlOrigin(u)]
MCPrivateUrls == {u \in MCUrls : PrivateDestination(u)}

Path(p) == [tool |-> "fs.write", args |-> [path |-> p]]

MCCalls == {Opening(u) : u \in Few} \cup
           {Path("etc"), Path("notes"), [tool |-> "fs.write", args |-> <<>>]}

Rules == {[action |-> "allow", tools |-> {BrowserOpen, "fs.write"}, when |-> NoMatch],
          [action |-> "ask",   tools |-> {BrowserOpen}, when |-> NoMatch],
          [action |-> "ask",   tools |-> {"fs.write"},
                               when |-> [key |-> "path", values |-> {"etc"}]],
          [action |-> "deny",  tools |-> {"fs.write"},
                               when |-> [key |-> "path", values |-> {"notes"}]],
          [action |-> "deny",  tools |-> {BrowserOpen},
                               when |-> [key |-> "url", values |-> {Other}]]}

RuleLists == UNION {[1..n -> Rules] : n \in 0..3}

Strings(letters, n) == UNION {[1..k -> letters] : k \in 0..n}

Patterns == Strings({"a", "e acute", Star}, 4)
MCNames  == Strings({"a", "b", "e acute"}, 4)
MCWide   == {"e acute"}

MCPolicies == [rules : RuleLists, fallback : Actions, grants : {{}},
               privateAllowed : BOOLEAN]
              \cup {Shipped(v) : v \in {"", "1", "true"}}
              \cup {[rules |-> <<CommandRule("deny", p)>>, fallback |-> "allow",
                     grants |-> {}, privateAllowed |-> FALSE] : p \in Patterns}
=============================================================================
