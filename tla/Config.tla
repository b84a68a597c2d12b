------------------------------- MODULE Config -------------------------------
(***************************************************************************)
(* The configuration: battery.conf is read four times, by                  *)
(* CORE_load_configuration, HTACCESS_load_configuration,                   *)
(* CORE_load_index_names and MIME_load_configuration, and what they leave  *)
(* in the global tables decides how requests are answered: which login a   *)
(* file needs (file_params, REQUEST_process), which content type it has    *)
(* (REQUEST_get_mime_type) and where the server listens.                   *)
(*                                                                         *)
(* A line is the sequence of its words; sscanf succeeds if there are       *)
(* enough.  A number stands for what atoi makes of a word; login and       *)
(* password are sequences of characters.                                   *)
(***************************************************************************)
EXTENDS Base64, FiniteSets

CONSTANTS ConfigFiles,    \* contents of battery.conf
          Places,         \* where the process can have its working directory
          app_path, logs, \* two of them: of the program, and of its log
          Directories,    \* <<p, name, q>>: chdir(name) leads from p to q
          Existing,       \* <<p, name>>: fopen(name) finds a file from p
          Resources,      \* files that are asked for
          Extension,      \* Extension[r]: the extension of a resource
          Lower,          \* Lower[e]: an extension in lower case
          Accounts,       \* logins and passwords that clients use
          OtherTexts,     \* what else they send after "Basic "
          MaxIndexNames,  \* MICRO_BUFF_SIZE, 8
          MaxMimeTypes,   \* STD_BUFF_SIZE, 256
          MaxHtAccess,    \* the size of ht_access[], 256
          NULL

ASSUME LimitsAssumption == MaxIndexNames \in Nat /\ MaxMimeTypes \in Nat /\ MaxHtAccess \in Nat
\* Neither login nor password is empty or has a colon.
ASSUME AccountsAssumption ==
  Accounts \subseteq [login : Seq(Byte \ {58}) \ {<<>>}, password : Seq(Byte \ {58}) \ {<<>>}]
ASSUME OtherTextsAssumption == OtherTexts \subseteq Seq(Byte)
ASSUME NullAssumption == NULL \notin Seq(Byte) /\ \A p \in Places : <<p, NULL>> \notin Existing
ASSUME PlacesAssumption == app_path \in Places /\ logs \in Places
ASSUME ConfigFilesAssumption ==
  \A f \in ConfigFiles : Len(f) \in Nat /\ DOMAIN f = 1..Len(f)

VARIABLES cfg_file,         \* the lines of battery.conf
          pass,             \* which loader runs, or what came of it
          line,             \* the line it reads next
          config,           \* the settings of core.c and socket_io.c
          ht_access, index_file_list, mime_types,
          cwd,              \* the working directory
          listed,           \* files that file_exists has found and left open
          session           \* a request and what is made of it

tables == <<ht_access, index_file_list, mime_types>>
places == <<cwd, listed>>
vars == <<cfg_file, pass, line, config, ht_access, index_file_list, mime_types, cwd, listed,
          session>>

\* "login:password"
Credentials(login, password) == login \o <<58>> \o password

\* What clients send as proof of who they are.
Texts == OtherTexts \cup {Rfc3548(Credentials(a.login, a.password)) : a \in Accounts}

\* "crashed" and "overrun": behaviour is undefined, nothing is said of what follows.
Ended == {"ready", "exit", "crashed", "overrun"}
SslOptions == {"ssl_certificate_file", "ssl_key_file"}
Processors == {"epoll", "select"}

Has(l, option, words) == Len(l) >= words /\ l[1] = option

\* The numbers of the lines of a file that have an option and so many words.
LinesOf(f, option, words) == {k \in DOMAIN f : Has(f[k], option, words)}

\* The logins and passwords of access lines are texts.
ASSUME HtAccessAssumption ==
  \A f \in ConfigFiles : \A k \in LinesOf(f, "global_ht_access", 4) :
    f[k][3] \in Seq(Byte) /\ f[k][4] \in Seq(Byte)

TypeOK ==
  /\ cfg_file \in ConfigFiles
  /\ pass \in {"open", "core", "htaccess", "index", "mime", "start"} \cup Ended
  /\ line \in 1 .. Len(cfg_file) + 1
  /\ config.connection_processor \in Processors
  /\ cwd \in Places
  /\ \A name \in listed : \E p \in Places : <<p, name>> \in Existing
  /\ {config.ssl_cert_file, config.ssl_key_file} \subseteq listed \cup {NULL}
  /\ {config.ssl_on, config.use_sendfile} \subseteq BOOLEAN
  /\ Len(ht_access) <= MaxHtAccess
  /\ Len(index_file_list) <= MaxIndexNames
  /\ Len(mime_types) <= MaxMimeTypes

\* server_log_prepare has changed to the directory of the log, if it exists.
Init ==
  /\ cfg_file \in ConfigFiles
  /\ cwd \in {logs, app_path} /\ listed = {}
  /\ pass = "open" /\ line = 1
  /\ config = [ip_proto_ver |-> -1, active_port |-> 0, document_root |-> NULL,
               ssl_cert_file |-> NULL, ssl_key_file |-> NULL, ssl_on |-> FALSE,
               connection_processor |-> "epoll", use_sendfile |-> FALSE]
  /\ ht_access = <<>> /\ index_file_list = <<>> /\ mime_types = <<>>
  /\ session = NULL

-----------------------------------------------------------------------------
(* Loading. *)

\* The file is opened and the settings are reset, or the program ends.
Open ==
  /\ pass = "open"
  /\ \/ /\ pass' = "core"
        /\ config' = [config EXCEPT !.ip_proto_ver = -1, !.active_port = -1,
                                    !.ssl_cert_file = NULL, !.ssl_key_file = NULL,
                                    !.use_sendfile = TRUE]
     \/ pass' = "exit" /\ UNCHANGED config
  /\ UNCHANGED <<cfg_file, line, tables, places, session>>

\* file_exists opens a file and leaves it open: the next time it is found by its
\* name, wherever the process is then.  (There is room in opened_files[].)
FileExists(name) == name \in listed \/ <<cwd, name>> \in Existing

\* A certificate or key that does not exist takes the one before with it.
\* Mutant: it does not.
IfExistsKept(name, before) == IF FileExists(name) THEN name ELSE before
IfExists(name, before) == IF FileExists(name) THEN name ELSE NULL

\* What one line sets.
Assigned(c, option, value) ==
  CASE option = "ip_ver"        -> [c EXCEPT !.ip_proto_ver = IF value = 6 THEN 6 ELSE 4]
    [] option = "port_number"   -> [c EXCEPT !.active_port = value]
    [] option = "document_root" -> [c EXCEPT !.document_root = value]
    [] option = "ssl_certificate_file" ->
         [c EXCEPT !.ssl_cert_file = IfExists(value, @)]
    [] option = "ssl_key_file"  -> [c EXCEPT !.ssl_key_file = IfExists(value, @)]
    [] option = "connection_processor" /\ value \in Processors ->
         [c EXCEPT !.connection_processor = value]
    [] option = "use_sendfile"  -> [c EXCEPT !.use_sendfile = value = "true"]
    [] OTHER -> c

\* Each loader begins at the first line.  Mutant: rewind is forgotten.
NextLoaderUnwound(next) ==
  /\ line > Len(cfg_file)
  /\ pass' = next
  /\ UNCHANGED line
NextLoader(next) ==
  /\ line > Len(cfg_file)
  /\ pass' = next
  /\ line' = 1

ReadLine == line <= Len(cfg_file) /\ line' = line + 1 /\ UNCHANGED pass

\* LOG_print writes a full buffer and changes to app_path; how full the buffer is
\* depends on paths and earlier lines.
LogPrints(from) == cwd' \in {from, app_path}

\* directory_exists leaves the process in the directory; what is none ends it.
DocumentRoot(name) ==
  \/ /\ \E q \in Places : <<cwd, name, q>> \in Directories /\ LogPrints(q)
     /\ ReadLine
  \/ /\ \A q \in Places : <<cwd, name, q>> \notin Directories
     /\ pass' = "exit"
     /\ UNCHANGED <<line, cwd>>

\* "%s" without an argument is undefined for a processor nobody knows.
Processor(name) ==
  \/ LogPrints(cwd) /\ ReadLine
  \/ name \notin Processors /\ pass' = "crashed" /\ UNCHANGED <<line, cwd>>

\* CORE_load_configuration, line by line.  Certificate and key are followed by
\* LOG_save, which changes to app_path.
CoreLine ==
  /\ pass = "core" /\ line <= Len(cfg_file)
  /\ LET l == cfg_file[line]
     IN IF Len(l) >= 2
        THEN /\ config' = Assigned(config, l[1], l[2])
             /\ listed' = listed \cup {name \in {l[2]} : l[1] \in SslOptions /\ FileExists(name)}
             /\ CASE l[1] = "document_root"        -> DocumentRoot(l[2])
                  [] l[1] = "connection_processor" -> Processor(l[2])
                  [] l[1] \in SslOptions           -> cwd' = app_path /\ ReadLine
                  [] l[1] \in {"ip_ver", "port_number", "use_sendfile"} -> LogPrints(cwd) /\ ReadLine
                  [] OTHER -> UNCHANGED cwd /\ ReadLine
        ELSE ReadLine /\ UNCHANGED <<config, cwd, listed>>
  /\ UNCHANGED <<cfg_file, tables, session>>

\* LOG_save, behind a certificate, a key or all that was loaded, ends the program
\* if it cannot open the log.
CannotSave ==
  /\ \/ pass = "start"
     \/ pass = "core" /\ \E option \in SslOptions : line \in LinesOf(cfg_file, option, 2)
  /\ pass' = "exit"
  /\ UNCHANGED <<cfg_file, line, config, tables, places, session>>

CoreEnd ==
  /\ pass = "core"
  /\ NextLoader("htaccess")
  /\ config' = [config EXCEPT !.ssl_on = /\ config.active_port = 443
                                         /\ config.ssl_cert_file # NULL
                                         /\ config.ssl_key_file # NULL]
  /\ UNCHANGED <<cfg_file, tables, places, session>>

\* HTACCESS_load_configuration.  One access line more than there is room for is
\* written behind the table.
Entry(l) == [res_filename |-> l[2], res_login |-> l[3], res_pwd |-> l[4],
             res_auth |-> base64_encode(Credentials(l[3], l[4]))]
HtaccessLine ==
  /\ pass = "htaccess" /\ line <= Len(cfg_file)
  /\ LET l == cfg_file[line]
     IN IF ~Has(l, "global_ht_access", 4) THEN ReadLine /\ UNCHANGED ht_access
        ELSE IF Len(ht_access) = MaxHtAccess
        THEN pass' = "overrun" /\ UNCHANGED <<line, ht_access>>
        ELSE ReadLine /\ ht_access' = Append(ht_access, Entry(l))
  /\ UNCHANGED <<cfg_file, config, index_file_list, mime_types, places, session>>

HtaccessEnd == /\ pass = "htaccess" /\ NextLoader("index")
               /\ UNCHANGED <<cfg_file, config, tables, places, session>>

\* CORE_load_index_names.  One name more than there is room for ends the loop.
\* Mutant: the loop is continued without reading on.
IndexLineWith(full) ==
  /\ pass = "index" /\ line <= Len(cfg_file)
  /\ LET l == cfg_file[line]
     IN IF ~Has(l, "site_index", 2) THEN ReadLine /\ UNCHANGED index_file_list
        ELSE IF Len(index_file_list) = MaxIndexNames
        THEN full /\ UNCHANGED index_file_list
        ELSE ReadLine /\ index_file_list' = Append(index_file_list, l[2])
  /\ UNCHANGED <<cfg_file, config, ht_access, mime_types, places, session>>
IndexLineStuck == IndexLineWith(UNCHANGED <<pass, line>>)
IndexLine == IndexLineWith(pass' = "mime" /\ line' = 1)

IndexEnd == /\ pass = "index" /\ NextLoader("mime")
            /\ UNCHANGED <<cfg_file, config, tables, places, session>>

\* MIME_load_configuration.  Types beyond the limit are read over.  Mutant: they
\* are not.
MimeLineWith(room) ==
  /\ pass = "mime" /\ ReadLine
  /\ LET l == cfg_file[line]
     IN mime_types' = IF Has(l, "mime_type", 3) /\ room
                      THEN Append(mime_types, [ext |-> l[2], mime_type |-> l[3]])
                      ELSE mime_types
  /\ UNCHANGED <<cfg_file, config, ht_access, index_file_list, places, session>>
MimeLineUnlimited == MimeLineWith(TRUE)
MimeLine == MimeLineWith(Len(mime_types) < MaxMimeTypes)

MimeEnd == /\ pass = "mime" /\ NextLoader("start")
           /\ UNCHANGED <<cfg_file, config, tables, places, session>>

\* What is no port number becomes 80.
Port(number) == IF number \in 0..65535 THEN number ELSE 80

\* The rest of CORE_initialize and SOCKET_initialization.  Without a document
\* root the program copies from a null pointer.
Start ==
  /\ pass = "start"
  /\ IF config.document_root = NULL
     THEN pass' = "crashed" /\ UNCHANGED config
     ELSE /\ pass' = "ready"
          /\ config' = [config EXCEPT !.active_port = Port(@)]
  /\ UNCHANGED <<cfg_file, line, tables, places, session>>

-----------------------------------------------------------------------------
(* Use. *)

First(K) == CHOOSE k \in K : \A m \in K : k <= m
Last(K) == CHOOSE k \in K : \A m \in K : m <= k

\* file_params: the text that opens a resource, or NULL.  Mutant: the loop goes
\* on behind the first entry.
RequiredLast(resource) ==
  LET hits == {k \in DOMAIN ht_access : ht_access[k].res_filename = resource}
  IN IF hits = {} THEN NULL ELSE ht_access[Last(hits)].res_auth
Required(resource) ==
  LET hits == {k \in DOMAIN ht_access : ht_access[k].res_filename = resource}
  IN IF hits = {} THEN NULL ELSE ht_access[First(hits)].res_auth

\* REQUEST_get_mime_type
ContentType(ext) ==
  LET hits == {k \in DOMAIN mime_types : Lower[mime_types[k].ext] = Lower[ext]}
  IN IF hits = {} THEN NULL ELSE mime_types[First(hits)].mime_type

\* The words strtok finds between colons.
Words(text) ==
  LET starts == {k \in DOMAIN text : text[k] # 58 /\ (k = 1 \/ text[k - 1] = 58)}
      from(n) == CHOOSE k \in starts : Cardinality({m \in starts : m < k}) = n - 1
      upto(n) == CHOOSE k \in from(n)..Len(text) :
                   /\ k = Len(text) \/ text[k + 1] = 58
                   /\ \A m \in from(n)..k : text[m] # 58
  IN [n \in 1..Cardinality(starts) |-> SubSeq(text, from(n), upto(n))]

\* A request for a file that exists and may be read; one is enough, since it
\* leaves nothing behind for the next.  SESSION_check_auth
\* decodes login and password, and copies from a null pointer if one is
\* missing; REQUEST_process compares the text as it was sent.
Request(resource, text) ==
  /\ pass = "ready" /\ session = NULL
  /\ LET words == IF text = NULL THEN <<>> ELSE Words(base64_decode(text))
     IN IF text # NULL /\ Len(words) < 2
        THEN pass' = "crashed" /\ UNCHANGED session
        ELSE /\ session' =
                  [resource |-> resource, authorization |-> text,
                   user_login |-> IF text = NULL THEN NULL ELSE words[1],
                   user_pwd   |-> IF text = NULL THEN NULL ELSE words[2],
                   admitted   |-> Required(resource) \in {NULL, text},
                   type       |-> ContentType(Extension[resource])]
             /\ UNCHANGED pass
  /\ UNCHANGED <<cfg_file, line, config, tables, places>>

Load == \/ Open \/ CoreLine \/ CannotSave \/ CoreEnd \/ HtaccessLine \/ HtaccessEnd
        \/ IndexLine \/ IndexEnd \/ MimeLine \/ MimeEnd \/ Start

Next == Load \/ \E resource \in Resources, text \in Texts \cup {NULL} : Request(resource, text)

\* Nothing but the loaders runs before the server is ready.
Spec == Init /\ [][Next]_vars /\ WF_vars(Load)

-----------------------------------------------------------------------------
(* What the lines of the file say, read all at once. *)

Lines(option, words) == LinesOf(cfg_file, option, words)

\* The word that the last of some lines sets.
Value(f, lines, default) == IF lines = {} THEN default ELSE f[Last(lines)][2]

SslLines == UNION {Lines(option, 2) : option \in SslOptions}

\* The process is in app_path when it reads line k: a certificate or a key came
\* before, and no document root since; and its name was not looked for before.
AtHome(k) ==
  /\ \E m \in SslLines : m < k /\ \A r \in Lines("document_root", 2) : ~(m < r /\ r < k)
  /\ \A m \in SslLines : m < k => cfg_file[m][2] # cfg_file[k][2]

\* An absolute path finds the same from every place.
Absolute(name) ==
  \A p \in Places : <<p, name>> \in Existing <=> <<app_path, name>> \in Existing

\* file is what the last line with the option names if that exists.  Whether a
\* relative path exists depends on the place of the line; what is said of it is
\* about lines that are read in app_path.
NamedByLast(option, file) ==
  LET lines == Lines(option, 2)
      name  == cfg_file[Last(lines)][2]
  IN IF lines = {} THEN file = NULL
     ELSE /\ file \in {name, NULL}
          /\ file # NULL => \E p \in Places : <<p, name>> \in Existing
          /\ AtHome(Last(lines)) \/ Absolute(name)
               => (file # NULL <=> <<app_path, name>> \in Existing)

LastSettings ==
  LET port == Value(cfg_file, Lines("port_number", 2), -1)
      known == {k \in Lines("connection_processor", 2) : cfg_file[k][2] \in Processors}
      root == Lines("document_root", 2)
  IN /\ config.active_port = Port(port)
     /\ config.connection_processor = Value(cfg_file, known, "epoll")
     /\ NamedByLast("ssl_certificate_file", config.ssl_cert_file)
     /\ NamedByLast("ssl_key_file", config.ssl_key_file)
     /\ config.ssl_on <=> port = 443 /\ NULL \notin {config.ssl_cert_file, config.ssl_key_file}
     /\ config.use_sendfile <=> Value(cfg_file, Lines("use_sendfile", 2), "true") = "true"
     /\ root # {} /\ config.document_root = Value(cfg_file, root, NULL)

\* Over four loaders: the server listens where the last line says, or at 80; the
\* last processor that is known runs, or epoll, and what is unknown leaves the one
\* before, though core.c:264 says "select()" of it; TLS is on exactly if the last
\* port is 443 and the last certificate and the last key were found.  An absolute
\* path is found if it exists, a relative one if it exists in app_path, provided its
\* line is read there: another certificate or key line came before, and no document
\* root after that.
LastSettingWins == pass = "ready" => LastSettings

\* The place of line k among lines.
Place(k, lines) == Cardinality({m \in lines : m <= k})

\* table holds what the first lines stand for, in their order, up to a limit.
HoldsFirst(table, entries, limit) ==
  LET lines == DOMAIN entries
  IN /\ Len(table) = IF Cardinality(lines) < limit THEN Cardinality(lines) ELSE limit
     /\ \A k \in lines : Place(k, lines) <= limit => table[Place(k, lines)] = entries[k]

\* Of names and types beyond the limits the first are kept, in the order of the
\* file, and the break in one loader costs the next none of its lines.  Of access
\* lines all are kept; only more than there is room for overrun their table.
FirstEntriesKept ==
  /\ pass = "overrun" => Cardinality(Lines("global_ht_access", 4)) > MaxHtAccess
  /\ pass = "ready" =>
    /\ Cardinality(Lines("global_ht_access", 4)) <= MaxHtAccess
    /\ HoldsFirst(ht_access, [k \in Lines("global_ht_access", 4) |-> Entry(cfg_file[k])],
                  MaxHtAccess)
    /\ HoldsFirst(index_file_list, [k \in Lines("site_index", 2) |-> cfg_file[k][2]],
                  MaxIndexNames)
    /\ HoldsFirst(mime_types,
                  [k \in Lines("mime_type", 3) |->
                     [ext |-> cfg_file[k][2], mime_type |-> cfg_file[k][3]]],
                  MaxMimeTypes)

\* A request is admitted if and only if nothing protects the resource, or it
\* carries, in the encoding of RFC 3548, login and password of the first
\* access line for it; other lines for the same resource admit nobody.
AdmittedAsConfigured ==
  session # NULL =>
    LET mine == {k \in Lines("global_ht_access", 4) : cfg_file[k][2] = session.resource}
        entry == cfg_file[First(mine)]
    IN session.admitted <=>
         \/ mine = {}
         \/ session.authorization = Rfc3548(Credentials(entry[3], entry[4]))

\* Whatever follows "Basic ", padded or not, with other characters or not: the
\* decoder never reads behind its copy, and of a text in the encoding of RFC 3548
\* it finds the login and the password.
LoginIsDecoded ==
  session # NULL /\ session.authorization # NULL =>
    /\ StaysInside(Kept(session.authorization))
    /\ \A account \in Accounts :
         session.authorization = Rfc3548(Credentials(account.login, account.password))
           => session.user_login = account.login /\ session.user_pwd = account.password

\* Loading ends.
LoadingEnds == <>(pass \in Ended)
=============================================================================
