------------------------------ MODULE MCConfig ------------------------------
(* Values of the constants of Config for TLC. *)
EXTENDS Config, TLC

Ann == <<97>>
Bob == <<98, 111>>
AnnAccount == [login |-> Ann, password |-> Bob]    \* four bytes
BobAccount == [login |-> Bob, password |-> Bob]    \* five bytes
LowAccount == [login |-> Ann, password |-> Ann]    \* three bytes
MCAccounts == {AnnAccount, BobAccount, LowAccount}

\* Without its padding; with a character that is skipped; without any.
MCOtherTexts ==
  LET ann == Rfc3548(Credentials(Ann, Bob))
  IN {SubSeq(ann, 1, 6), SubSeq(ann, 1, 3) \o <<33>> \o SubSeq(ann, 4, 8), <<>>}

Root == <<"document_root", "/www">>
Port443 == <<"port_number", 443>>

\* A certificate by an absolute path; a key that a relative path finds in app_path
\* alone, another that is found in the document root alone; and what does not exist.
SslLinesOfFiles == {
  <<"ssl_certificate_file", "/cert">>, <<"ssl_certificate_file", "none">>,
  <<"ssl_key_file", "key">>, <<"ssl_key_file", "key2">>}

\* What else the first loader reads but ip_ver, which nothing uses, and what the
\* others read; two where the order matters, and some that are incomplete.
SettingLines == {
  Port443, <<"port_number", 70000>>, <<"document_root", "/none">>,
  <<"connection_processor", "select">>, <<"connection_processor", "kqueue">>,
  <<"use_sendfile", "false">>}
TableLines == {
  <<"site_index", "a">>, <<"site_index", "b">>,
  <<"mime_type", ".h", "plain">>, <<"mime_type", ".H", "html">>, <<"mime_type", ".c">>,
  <<"global_ht_access", "r", Ann, Bob>>, <<"global_ht_access", "r", Bob, Bob>>}

UpTo(n, lines) == UNION {[1..m -> lines] : m \in 0..n}

\* Every file of two lines; the document root and three settings, or three lines
\* for the tables; and port 443 with four lines for TLS and document roots.
MCConfigFiles ==
  UpTo(2, {Root} \cup SslLinesOfFiles \cup SettingLines \cup TableLines)
  \cup {<<Root>> \o f : f \in UpTo(3, SettingLines) \cup UpTo(3, TableLines)}
  \cup {<<Port443>> \o f : f \in UpTo(4, {Root} \cup SslLinesOfFiles)}

MCPlaces == {"app", "logs", "www"}
MCDirectories == {<<p, "/www", "www">> : p \in MCPlaces}
MCExisting == {<<p, "/cert">> : p \in MCPlaces} \cup {<<"app", "key">>, <<"www", "key2">>}
MCResources == {"r", "free"}
MCExtension == "r" :> ".h" @@ "free" :> ".c"
MCLower == ".h" :> ".h" @@ ".H" :> ".h" @@ ".c" :> ".c"
=============================================================================
