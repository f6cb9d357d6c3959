---------------------------- MODULE Certificates ----------------------------
(***************************************************************************)
(* SniCertificateManager (vortex-proxy/src/tls.rs): a concurrent map from  *)
(* domains to bundles and a default bundle.  Lookups read it in up to      *)
(* three steps while other threads register, remove and reload domains,    *)
(* and while the files that reloads read are being replaced.               *)
(*                                                                         *)
(* A name is the sequence of its labels; a certificate chain or a key is   *)
(* the generation of the pair it was issued with.                          *)
(***************************************************************************)
EXTENDS Naturals, Sequences

CONSTANTS
    Lookups,       \* threads that look a name up
    Reloads,       \* threads that reload a domain
    ServerNames,   \* names that clients send
    Domains,       \* names that domains are registered under
    FromFiles,     \* those whose bundle is kept in files
    Lower,         \* to_lowercase, on labels
    Generations,   \* of certificate and key
    Empty,         \* a PEM file with no item of the kind looked for
    Unreadable,    \* a file that cannot be opened or parsed
    Issued,        \* bundles that come from elsewhere than the files
    NoBundle

VARIABLES
    domains,         \* DashMap: a function on the names registered
    default_bundle,
    certFile,        \* what the certificate and the key file hold
    keyFile,
    lookup,          \* each lookup: where it is, its name, its answer
    reload           \* each reload: where it is, its domain and what it has read

certVars == <<domains, default_bundle, certFile, keyFile, lookup, reload>>

Contents == Generations \cup {Empty, Unreadable}

\* CertKeyBundle: load_certs accepts a file without certificates.
Bundles == [certs : Generations \cup {Empty}, key : Generations]

Clean(name) == [i \in DOMAIN name |-> Lower[name[i]]]

\* format!("*{}", ...) of the name from its first dot.
Wildcard(clean) == <<"*">> \o Tail(clean)

HasDot(clean) == Len(clean) > 1

ASSUME CertAssumption ==
    /\ FromFiles \subseteq Domains
    /\ NoBundle \notin Bundles /\ Issued \subseteq Bundles
    /\ Empty \notin Generations /\ Unreadable \notin Generations
    /\ \A n \in ServerNames \cup Domains : Clean(Clean(n)) = Clean(n)

Keys == {Clean(d) : d \in Domains}

IdleLookup == [stage |-> "idle", name |-> <<>>, overtaken |-> FALSE, answer |-> NoBundle]
IdleReload == [stage |-> "idle", domain |-> <<>>, certs |-> Empty, key |-> Empty, disturbed |-> FALSE]

CertInit ==
    /\ domains = <<>>
    /\ default_bundle = NoBundle
    /\ certFile \in Generations
    /\ keyFile = certFile
    /\ lookup = [t \in Lookups |-> IdleLookup]
    /\ reload = [r \in Reloads |-> IdleReload]

-----------------------------------------------------------------------------
(***************************************************************************)
(* get_certificate.  The map is read one key at a time.                    *)
(***************************************************************************)
\* What a lookup would answer if nothing could happen between its reads.
Atomic(clean) ==
    IF clean \in DOMAIN domains THEN domains[clean]
    ELSE IF HasDot(clean) /\ Wildcard(clean) \in DOMAIN domains THEN domains[Wildcard(clean)]
    ELSE default_bundle

\* The lookup reads one key, and answers or goes on.
Read(t, key, next) ==
    lookup' = [lookup EXCEPT ![t] =
        IF key \in DOMAIN domains THEN [IdleLookup EXCEPT !.answer = domains[key]]
        ELSE [@ EXCEPT !.stage = next]]

LookupBegins(t, name) ==
    /\ lookup[t].stage = "idle"
    /\ lookup' = [lookup EXCEPT ![t] = [IdleLookup EXCEPT !.stage = "exact", !.name = Clean(name)]]
    /\ UNCHANGED <<domains, default_bundle, certFile, keyFile, reload>>

LookupExact(t) ==
    /\ lookup[t].stage = "exact"
    /\ Read(t, lookup[t].name, IF HasDot(lookup[t].name) THEN "wildcard" ELSE "default")
    /\ UNCHANGED <<domains, default_bundle, certFile, keyFile, reload>>

LookupWildcard_Whole(t) ==
    /\ lookup[t].stage = "wildcard"
    /\ Read(t, <<"*">> \o lookup[t].name, "default")
    /\ UNCHANGED <<domains, default_bundle, certFile, keyFile, reload>>

LookupWildcard(t) ==
    /\ lookup[t].stage = "wildcard"
    /\ Read(t, Wildcard(lookup[t].name), "default")
    /\ UNCHANGED <<domains, default_bundle, certFile, keyFile, reload>>

LookupDefault(t) ==
    /\ lookup[t].stage = "default"
    /\ lookup' = [lookup EXCEPT ![t] = [IdleLookup EXCEPT !.answer = default_bundle]]
    /\ UNCHANGED <<domains, default_bundle, certFile, keyFile, reload>>

-----------------------------------------------------------------------------
(***************************************************************************)
(* Changes of the manager.  A lookup is overtaken when a key it has already*)
(* found absent is registered.                                             *)
(***************************************************************************)
Passed(t, key) ==
    \/ lookup[t].stage \in {"wildcard", "default"} /\ key = lookup[t].name
    \/ lookup[t].stage = "default" /\ HasDot(lookup[t].name) /\ key = Wildcard(lookup[t].name)

\* insert, under a key made of the domain; for the history, lookups it overtakes.
Insert(key, bundle) ==
    /\ domains' = [k \in DOMAIN domains \cup {key} |-> IF k = key THEN bundle ELSE domains[k]]
    /\ lookup' = [t \in Lookups |->
          [lookup[t] EXCEPT !.overtaken = lookup[t].overtaken \/ Passed(t, key)]]

register_domain(domain, bundle) == Insert(Clean(domain), bundle)

Register(domain, bundle) ==
    /\ register_domain(domain, bundle)
    /\ UNCHANGED <<default_bundle, certFile, keyFile, reload>>

remove_domain(domain) ==
    /\ Clean(domain) \in DOMAIN domains
    /\ domains' = [k \in DOMAIN domains \ {Clean(domain)} |-> domains[k]]
    /\ UNCHANGED <<default_bundle, certFile, keyFile, lookup, reload>>

set_default(bundle) ==
    /\ default_bundle # bundle
    /\ default_bundle' = bundle
    /\ UNCHANGED <<domains, certFile, keyFile, lookup, reload>>

-----------------------------------------------------------------------------
(***************************************************************************)
(* reload_from_paths.                                                      *)
(***************************************************************************)
load_certs(r, domain) ==
    /\ reload[r].stage = "idle"
    /\ reload' = [reload EXCEPT ![r] =
          IF certFile = Unreadable THEN IdleReload
          ELSE [stage |-> "key", domain |-> domain, certs |-> certFile, key |-> Empty,
                disturbed |-> FALSE]]
    /\ UNCHANGED <<domains, default_bundle, certFile, keyFile, lookup>>

\* keys.remove(0) panics when the file holds no key.  A release build aborts then:
\* a process that is started anew has an empty manager.
Aborts ==
    /\ domains' = <<>>
    /\ default_bundle' = NoBundle
    /\ lookup' = [t \in Lookups |-> IdleLookup]
    /\ reload' = [r \in Reloads |-> IdleReload]

load_private_key_Kept(r) ==
    /\ reload[r].stage = "key"
    /\ reload' = [reload EXCEPT
          ![r].stage = "register",
          ![r].key = IF keyFile \in Generations THEN keyFile ELSE reload[r].certs]
    /\ UNCHANGED <<domains, default_bundle, certFile, keyFile, lookup>>

load_private_key(r) ==
    /\ reload[r].stage = "key"
    /\ \/ /\ keyFile \in Generations
          /\ reload' = [reload EXCEPT ![r].stage = "register", ![r].key = keyFile]
          /\ UNCHANGED <<domains, default_bundle, lookup>>
       \/ /\ keyFile = Unreadable
          /\ reload' = [reload EXCEPT ![r] = IdleReload]
          /\ UNCHANGED <<domains, default_bundle, lookup>>
       \/ keyFile = Empty /\ Aborts
    /\ UNCHANGED <<certFile, keyFile>>

RegisterReloaded(r) ==
    /\ reload[r].stage = "register"
    /\ register_domain(reload[r].domain, [certs |-> reload[r].certs, key |-> reload[r].key])
    /\ reload' = [reload EXCEPT ![r] = IdleReload]
    /\ UNCHANGED <<default_bundle, certFile, keyFile>>

\* An administrator replaces a file, or is about to: reloads under way may read
\* one file before and the other after.
Rotate(cert, key) ==
    /\ <<cert, key>> # <<certFile, keyFile>>
    /\ cert = certFile \/ key = keyFile
    /\ certFile' = cert
    /\ keyFile' = key
    /\ reload' = [r \in Reloads |-> [reload[r] EXCEPT !.disturbed = (reload[r].stage # "idle")]]
    /\ UNCHANGED <<domains, default_bundle, lookup>>

-----------------------------------------------------------------------------
CertNext ==
    \/ \E t \in Lookups :
        \/ LookupExact(t) \/ LookupWildcard(t) \/ LookupDefault(t)
        \/ \E n \in ServerNames : LookupBegins(t, n)
    \/ \E d \in Domains :
        \/ remove_domain(d)
        \/ \E b \in Issued : Register(d, b)
    \/ \E b \in Issued : set_default(b)
    \/ \E r \in Reloads :
        \/ load_private_key(r) \/ RegisterReloaded(r)
        \/ \E d \in FromFiles : load_certs(r, d)
    \/ \E c \in Contents, k \in Contents : Rotate(c, k)

CertSpec == CertInit /\ [][CertNext]_certVars

-----------------------------------------------------------------------------
\* Types of the variables; the keys of the map are lower-case names.
CertTypeOK ==
    /\ DOMAIN domains \subseteq Keys
    /\ \A k \in DOMAIN domains : domains[k] \in Bundles
    /\ default_bundle \in Bundles \cup {NoBundle}
    /\ certFile \in Contents /\ keyFile \in Contents
    /\ lookup \in [Lookups -> [stage : {"idle", "exact", "wildcard", "default"},
                              name : {Clean(n) : n \in ServerNames} \cup {<<>>},
                              overtaken : BOOLEAN,
                              answer : Bundles \cup {NoBundle}]]
    /\ reload \in [Reloads -> [stage : {"idle", "key", "register"},
                              domain : FromFiles \cup {<<>>},
                              certs : Generations \cup {Empty},
                              key : Generations \cup {Empty},
                              disturbed : BOOLEAN]]

\* get_certificate reads the map up to three times.  Unless a key it had found
\* absent is registered behind it, the answer it returns is the one the whole
\* manager gives at that instant: the exact domain before the wildcard before
\* the default, however many domains come, go and change meanwhile.
AtomicUnlessOvertaken ==
    [][\A t \in Lookups :
          /\ LookupExact(t) \/ LookupWildcard(t) \/ LookupDefault(t)
          /\ lookup'[t].stage = "idle" /\ ~lookup[t].overtaken
          => lookup'[t].answer = Atomic(lookup[t].name)]_certVars

\* After a reload during which no file was replaced, clients that ask for the
\* domain, in whatever case it was registered, get what the two files hold.  (One
\* that a replacement of the files overlaps may pair an old chain with a new key,
\* and one that finds no key in its file does not end in an error, but aborts.)
ReloadExact ==
    [][\A r \in Reloads, d \in FromFiles :
          RegisterReloaded(r) /\ d = reload[r].domain /\ ~reload[r].disturbed
             => Atomic(Clean(d))' = [certs |-> certFile, key |-> keyFile]]_certVars

(***************************************************************************)
(* The inductive strengthening.                                            *)
(***************************************************************************)
\* The keys a lookup has passed are absent, unless it was overtaken.
PassedAbsent ==
    \A t \in Lookups : ~lookup[t].overtaken => \A k \in DOMAIN domains : ~Passed(t, k)

\* What an undisturbed reload has read is what the files hold.
ReadsCurrent ==
    \A r \in Reloads :
        /\ reload[r].stage # "idle" => reload[r].domain \in FromFiles
        /\ reload[r].stage = "register" => reload[r].key \in Generations
        /\ reload[r].stage # "idle" /\ ~reload[r].disturbed => reload[r].certs = certFile
        /\ reload[r].stage = "register" /\ ~reload[r].disturbed => reload[r].key = keyFile

\* Only a name with a dot has a wildcard.
WildcardHasDot == \A t \in Lookups : lookup[t].stage = "wildcard" => HasDot(lookup[t].name)

CertInv == PassedAbsent /\ WildcardHasDot /\ ReadsCurrent

=============================================================================
