---------------------------- MODULE Configuration ----------------------------
(***************************************************************************)
(* How a server process gets its configuration (internal/config/config.go),  *)
(* the guard and the flags over it (internal/cli/app.go, addr.go), and what    *)
(* it binds.  Every variable is read in one pass, a bad one is replaced by its *)
(* default so that the others are judged too, and the process starts only if   *)
(* none was bad (TR-30).                                                       *)
(*                                                                            *)
(* A variable is what is left of it after TrimSpace, split where the code      *)
(* splits it; only APM_REGISTRY_BASE_URL is as it was set, less its trailing    *)
(* slashes.  Directories and RequireManifestVersionMatch, which nothing here    *)
(* depends on, are left out.                                                    *)
(***************************************************************************)
EXTENDS SequencesExt, Integers

CONSTANTS Environments,  \* the environments and flags a process may start with
          MaxInt         \* the largest int64

VARIABLES env,     \* the process's environment and flags
          phase,   \* how far the start has come
          cfg,     \* the configuration
          listen   \* the address it binds

configVars == <<env, phase, cfg, listen>>

Unset == 0 - 1

Defaults == [port |-> "3000", archive |-> 2, uncompressed |-> 3, entries |-> 2,
             media |-> <<"zip", "gzip">>]

\* An address is <<host, port>>, nothing is <<>>.  A base URL is what it begins with, as
\* it is spelled, then what stands before its next ":" or "/", and what stands behind.
Fresh == [port |-> "", addr |-> <<>>, base |-> <<>>, backend |-> "fs", dsn |-> "sqlite",
          archive |-> Unset, uncompressed |-> Unset, entries |-> Unset,
          media |-> <<>>, insecure |-> "", addrFlag |-> <<>>, portFlag |-> ""]

NoConfig == [port |-> "", addr |-> <<>>, base |-> <<>>, archive |-> 0, uncompressed |-> 0,
             entries |-> 0, media |-> <<>>, insecure |-> FALSE]

-----------------------------------------------------------------------------
ValidatePort(p) == p \in {"3000", "8080"}
ValidateAddr(a) == Len(a) = 2 /\ ValidatePort(a[2])

PortOf(e) == IF e.port = "" THEN Defaults.port ELSE e.port

\* PORT is looked at again for a disagreement, whether or not it was valid.
Disagree(e) == e.addr # <<>> /\ ValidateAddr(e.addr) /\ e.port \notin {"", e.addr[2]}

AddrWins(e) == e.addr # <<>> /\ ValidateAddr(e.addr) /\ ~Disagree(e)

ResolvedPort(e) == IF AddrWins(e) THEN e.addr[2] ELSE PortOf(e)

ResolvedAddr(e) ==
    IF e.addr = <<>> THEN <<"", PortOf(e)>> ELSE IF AddrWins(e) THEN e.addr ELSE <<>>

BaseURL(e) == IF e.base = <<>> THEN <<"http://", "localhost", ResolvedPort(e)>> ELSE e.base

\* The host is cut at its first ":", but not when it is in brackets: then only a
\* host with nothing after it is recognised.
IsLoopback(url) ==
    \/ url[2] \in {"localhost", "127.0.0.1"}
    \/ url[2] = "[::1]" /\ url[3] = ""

\* Mutant: v < 0 instead of v <= 0.
NonNegative == 0..MaxInt

\* Mutant: ParseUint.
PositiveUnsigned == 1..(2 * MaxInt + 1)

\* ParseInt fails on what is no int64; a bad number falls back to the default.
Positive == 1..MaxInt
PositiveInt64(raw, fallback) == IF raw \in Positive THEN raw ELSE fallback
BadNumber(raw) == raw # Unset /\ raw \notin Positive

BoolOr(raw, fallback) == IF raw \in {"true", "false"} THEN raw = "true" ELSE fallback
BadBool(raw) == raw \notin {"", "true", "false"}

Parts(e) == IF e.media = <<>> THEN Defaults.media ELSE e.media
Readable == {"zip", "gzip"}

ParseMediaTypes(parts) ==
    FoldLeft(LAMBDA out, mt : IF mt \in Readable /\ ~Contains(out, mt)
                              THEN Append(out, mt) ELSE out, <<>>, parts)

Loaded(e) ==
    [port |-> ResolvedPort(e), addr |-> ResolvedAddr(e), base |-> BaseURL(e),
     archive |-> PositiveInt64(e.archive, Defaults.archive),
     uncompressed |-> PositiveInt64(e.uncompressed, Defaults.uncompressed),
     entries |-> PositiveInt64(e.entries, Defaults.entries),
     media |-> ParseMediaTypes(Parts(e)),
     insecure |-> BoolOr(e.insecure, FALSE)]

\* A prefix of the string: "HTTP://" is another, and so is a blank before it.
PlainHTTP(c) == c.base[1] = "http://" /\ ~IsLoopback(c.base) /\ ~c.insecure

\* Everything Load reports; the empty set is a configuration it returns.
Problems(e) ==
    LET c == Loaded(e)
        If(condition, problem) == IF condition THEN {problem} ELSE {}
    IN  UNION {If(~ValidatePort(PortOf(e)), "PORT"),
               If(e.addr # <<>> /\ ~ValidateAddr(e.addr), "ADDR"),
               If(Disagree(e), "ADDR and PORT"),
               If(e.backend # "fs", "BLOB_BACKEND"),
               If(e.dsn # "sqlite", "DB_URL"),
               If(BadNumber(e.archive), "MAX_ARCHIVE_BYTES"),
               If(BadNumber(e.uncompressed), "MAX_UNCOMPRESSED_BYTES"),
               If(BadNumber(e.entries), "MAX_ARCHIVE_ENTRIES"),
               If(c.archive > c.uncompressed, "caps"),
               If(~(ToSet(Parts(e)) \subseteq Readable \cup {""}), "media type"),
               If(c.media = <<>>, "ACCEPTED_MEDIA_TYPES"),
               If(BadBool(e.insecure), "ALLOW_INSECURE_HTTP"),
               If(PlainHTTP(c), "BASE_URL")}

-----------------------------------------------------------------------------
ConfigInit ==
    /\ env \in Environments
    /\ phase = "starting"
    /\ cfg = NoConfig
    /\ listen = <<>>

\* open: Load, and then the guard, which Load leaves nothing to find for.
LoadConfig ==
    /\ phase = "starting"
    /\ IF Problems(env) = {}
       THEN cfg' = Loaded(env) /\ phase' = "loaded"
       ELSE phase' = "refused" /\ UNCHANGED cfg
    /\ UNCHANGED <<env, listen>>

\* resolveListenAddr: at most one flag; -port keeps the configured host.
FlagsRefused ==
    \/ env.addrFlag # <<>> /\ env.portFlag # ""
    \/ env.addrFlag # <<>> /\ ~ValidateAddr(env.addrFlag)
    \/ env.portFlag # "" /\ ~ValidatePort(env.portFlag)

\* Mutant: -port binds every interface.
ListenAddrAnyHost ==
    IF env.portFlag # "" THEN <<"", env.portFlag>>
    ELSE IF env.addrFlag # <<>> THEN env.addrFlag ELSE cfg.addr

ListenAddr ==
    IF env.addrFlag # <<>> THEN env.addrFlag
    ELSE IF env.portFlag # "" THEN <<cfg.addr[1], env.portFlag>> ELSE cfg.addr

ResolveListenAddr ==
    /\ phase = "loaded"
    /\ IF FlagsRefused
       THEN phase' = "refused" /\ UNCHANGED listen
       ELSE listen' = ListenAddr /\ phase' = "listening"
    /\ UNCHANGED <<env, cfg>>

ConfigNext == LoadConfig \/ ResolveListenAddr

-----------------------------------------------------------------------------
ConfigTypeOK ==
    /\ phase \in {"starting", "loaded", "listening", "serving", "refused"}
    /\ cfg.archive \in 0..MaxInt /\ cfg.uncompressed \in 0..MaxInt
    /\ cfg.entries \in 0..MaxInt
    /\ ToSet(cfg.media) \subseteq Readable
    /\ cfg.addr = <<>> \/ ValidateAddr(cfg.addr)
    /\ listen = <<>> \/ ValidateAddr(listen)

\* The server binds the port that PORT, APM_REGISTRY_ADDR and the flags name, whichever
\* of them are set, and the host of the last of them that names one; two variables never
\* disagree silently (config.go:219-224), -port opens no other interface
\* (addr.go:16-20), and a derived base URL names the configured port.
BindsWhatWasAsked ==
    phase = "listening" =>
        LET flagged == env.addrFlag # <<>> \/ env.portFlag # "" IN
        /\ env.port # "" => cfg.port = env.port
        /\ env.addr # <<>> => cfg.port = env.addr[2]
        /\ env.base = <<>> => cfg.base[3] = cfg.port
        /\ ~flagged => listen[2] = cfg.port
        /\ env.portFlag # "" => listen[2] = env.portFlag
        /\ env.addrFlag # <<>> => listen = env.addrFlag
        /\ env.addrFlag = <<>> => listen[1] = IF env.addr # <<>> THEN env.addr[1] ELSE ""

\* TR-30: a configuration that starts can be met, whatever was defaulted: the caps are
\* positive and in order, an archive type is accepted, and an origin that begins with
\* "http://", followed by a host other than this machine's, was asked for.  And a number,
\* a switch or an address that is bad on its own always stops the start: no default
\* hides it.
StartsOnlyWhenSound ==
    phase \in {"loaded", "listening"} =>
        /\ 0 < cfg.archive /\ cfg.archive <= cfg.uncompressed /\ 0 < cfg.entries
        /\ cfg.media # <<>>
        /\ cfg.base[1] = "http://" =>
              cfg.base[2] \in {"localhost", "127.0.0.1", "[::1]"} \/ env.insecure = "true"
        /\ \A raw \in {env.archive, env.uncompressed, env.entries} :
              raw \in {Unset} \cup 1..MaxInt
        /\ env.addr = <<>> \/ ValidateAddr(env.addr)
        /\ ToSet(env.media) \subseteq Readable \cup {""}
        /\ env.insecure \in {"", "true", "false"}
=============================================================================
