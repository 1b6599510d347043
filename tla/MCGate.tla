------------------------------- MODULE MCGate -------------------------------
(* An instance of Gate: browsers on every page, and native clients.        *)
EXTENDS Gate

CONSTANTS own, pub, evil, localhost, alias

MCLoopbackNames == {localhost}

\* One name on every port, one on a port of its own.
MCLocalAddresses == {own}
MCTrustedHosts == {[name |-> pub, port |-> 8443]}

MCDefaultPort == [http |-> 80, https |-> 443]

Names == {own, pub, evil, localhost, alias}

Url(scheme, name, port) == [scheme |-> scheme, name |-> name, port |-> port]

Urls ==
    {Url("https", name, port) : name \in {own, pub, evil}, port \in {443, 8443}}
    \cup {Url("http", name, port) : name \in {own, pub, evil}, port \in {80, 8443}}
    \cup {Url("https", own, 80), Url("http", alias, 8443),
          Url("http", localhost, 8443), Url("https", localhost, 443)}

MCPages == Urls \ {Url("https", own, 80), Url("https", evil, 8443), Url("http", evil, 8443),
                   Url("http", pub, 80), Url("http", localhost, 8443)}

\* What a page or a person can make a browser send.
Shape(kind, method, mode, dest) ==
    [kind |-> kind, method |-> method, mode |-> mode, dest |-> dest]

Navigation == Shape("request", "GET", "navigate", "document")

Shapes == {
    Navigation,
    Shape("request", "GET", "navigate", "iframe"),
    Shape("request", "POST", "navigate", "document"),
    Shape("request", "GET", "no-cors", "image"),
    Shape("request", "GET", "cors", "empty"),
    Shape("request", "POST", "cors", "empty"),
    Shape("request", "OPTIONS", "cors", "empty"),
    Shape("upgrade", "GET", "websocket", "empty")}

Site(page, url) ==
    IF page = None THEN "none"
    ELSE IF page = url THEN "same-origin"
    ELSE IF page # Opaque /\ page.name = url.name /\ page.scheme = url.scheme THEN "same-site"
    ELSE "cross-site"

\* Without a page there is a person, who types an address.  A read of the
\* page's own origin, and one that expects no answer the page may look at, are
\* sent without Origin.
Origins(page, url, shape) ==
    IF page = None THEN IF shape = Navigation THEN {None} ELSE {}
    ELSE IF shape.method = "POST" \/ shape.kind = "upgrade" THEN {page, Opaque}
    ELSE IF shape.mode = "cors" /\ page # url THEN {page}
    ELSE {None}

Browser(page, url, shape, origin, where, client) ==
    LET marked == Trustworthy(url) IN
    [kind |-> shape.kind, method |-> shape.method,
     mode |-> IF marked THEN shape.mode ELSE None,
     dest |-> IF marked THEN shape.dest ELSE None,
     site |-> IF marked THEN Site(page, url) ELSE None,
     host |-> HostOf(url.name, url.port, url.scheme),
     origin |-> origin, page |-> page, url |-> url,
     listener |-> where.listener, local |-> where.peer.local, forwarded |-> where.peer.forwarded,
     holds |-> client.holds, path |-> client.path,
     accept |-> IF shape = Navigation THEN "html" ELSE "json"]

\* From this machine, and through a proxy on it as from everywhere else;
\* over TLS there is the primary listener only.
Places(url) ==
    [listener : IF url.scheme = "https" THEN {"primary"} ELSE {"primary", "compat"},
     peer : {[local |-> TRUE, forwarded |-> FALSE], [local |-> TRUE, forwarded |-> TRUE]}]

BrowserRequests(urls, pages) ==
    UNION {{Browser(page, url, shape, origin, where, client) :
               origin \in Origins(page, url, shape), where \in Places(url),
               client \in {[holds |-> {}, path |-> "relay"],
                          [holds |-> {"session", "grant"}, path |-> "pinned"]}} :
           page \in pages, url \in urls, shape \in Shapes}

\* A native client, or a proxy in front of one, says what it likes.
NativeRequests ==
    [kind : {"request", "upgrade"}, method : {"GET", "POST"}, mode : {None}, dest : {None},
     site : {None}, host : {None, Unparsable} \cup
                [name : {own, alias}, port : {8443}],
     origin : {None}, page : {None}, url : {None},
     listener : {"primary", "compat"}, local : BOOLEAN, forwarded : BOOLEAN,
     holds : {{}, {"token"}, {"grant"}, {"session", "grant"}},
     path : {"health", "relay", "api", "pinned", "extra", "asset", Unparsable},
     accept : {"html", "json"}]

MCRequests == BrowserRequests(Urls, MCPages \cup {None, Opaque}) \cup NativeRequests
=============================================================================
