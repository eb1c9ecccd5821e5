----------------------------- MODULE MCWebChecks -----------------------------
(***************************************************************************)
(* Sites for TLC: a sound one, one with every sign a check looks for, one  *)
(* with some of each, one without metadata, and two of WordPress.          *)
(***************************************************************************)
EXTENDS WebChecks

Says(status, shows) == [status |-> status, shows |-> shows]
Hardened == {"hsts", "csp", "nosniff", "referrer-policy", "permissions-policy", "frame-ancestors",
             "form-action", "x-frame-options"}
Plain == {"options", "origin evil", "origin null", "origin http", "origin subdomain",
          "origin attacker", "Host", "X-Forwarded-Host", "data one", "data two"}
Quiet == [p \in Probes |->
            CASE p \in {"headers", "framing", "base", "cookie flags"} -> Says(200, Hardened)
              [] p \in Plain -> Says(200, {})
              [] OTHER -> Says(404, {})]
Signs == {"csp report-only", "unsafe script", "unsafe style", "any ancestor", "server version",
          "credentials", "allowed", "session cookie", "writing methods", "internals", "xml",
          "any domain", "schema", "duplicate cookie", "parent domain", "source", "private key",
          "emails", "real", "marker", "active", "java", "pickle", "wordpress", "users", "author",
          "version", "xml-rpc", "form"}
Wide == [p \in Probes |-> Says(200, Signs)]
FormTo(action, method, token, password, plain) ==
    [action |-> action, method |-> method, token |-> token, password |-> password, plain |-> plain]
TokenFrom(from, value, secret, wrong) ==
    [from |-> from, value |-> value, secret |-> secret, wrong |-> wrong]
Sound == [answers |-> Quiet, wordpress |-> FALSE, https |-> TRUE, active |-> TRUE,
          described |-> TRUE,
          forms |-> <<FormTo("f", "POST", TRUE, TRUE, FALSE)>>, urls |-> << >>, scripts |-> << >>,
          tokens |-> <<TokenFrom("metadata", "t", "strong", {})>>,
          discovered |-> <<[path |-> "shadow one", shape |-> "x"]>>, documented |-> {"x"}]
Leaky == [Sound EXCEPT !.answers = Wide, !.https = FALSE,
          !.forms = <<FormTo("f", "POST", FALSE, FALSE, FALSE),
                      FormTo("f", "PUT", FALSE, FALSE, FALSE),
                      FormTo("g", "POST", FALSE, TRUE, TRUE)>>,
          !.urls = <<[url |-> "u", carries |-> {"session"}],
                     [url |-> "v", carries |-> {"session", "password"}]>>,
          !.scripts = <<[url |-> "u", library |-> "jquery", old |-> TRUE],
                        [url |-> "v", library |-> "jquery", old |-> TRUE]>>,
          !.tokens = <<TokenFrom("metadata", "t", "weak", {"weak secret", "roles"}),
                       TokenFrom("ann", "t", "weak", {"weak secret"}),
                       TokenFrom("bob", "u", "weak", {"weak secret", "unsigned"})>>,
          !.discovered = <<[path |-> "shadow one", shape |-> "x"],
                           [path |-> "shadow two", shape |-> "x"]>>,
          !.documented = {}]
\* Some of each.
Mixed == [Leaky EXCEPT
             !.answers = [p \in Probes |->
                            IF p \in {"headers", "base", "graphql", "Host", "data one"}
                            THEN Quiet[p] ELSE Wide[p]],
             !.https = TRUE,
             !.forms = <<FormTo("f", "GET", FALSE, TRUE, FALSE)>>]
\* An asset without metadata.
Bare == [Mixed EXCEPT !.described = FALSE, !.active = FALSE, !.tokens = << >>, !.documented = {}]
Blog == [Sound EXCEPT !.wordpress = TRUE]
WideBlog == [Leaky EXCEPT !.wordpress = TRUE]
ModelWebSites == {Sound, Leaky, Mixed, Bare, Blog, WideBlog}

=============================================================================
