----------------------------- MODULE RustTransport -----------------------------
(***************************************************************************)
(* From the environment to a channel: the options are read, then checked   *)
(* one after the other, then become the TLS set-up and the settings of the *)
(* channel.  The text of an option is one of the classes that the code     *)
(* tells apart.                                                            *)
(***************************************************************************)
EXTENDS Naturals, Sequences, FiniteSets

CONSTANT MaxSet   \* how many options differ from the plain ones at once

ASSUME MaxSetAssumption == MaxSet \in Nat

\* Texts: a readable file may not be pem ("garbled") or hold nothing that the TLS
\* library can use ("unusable").
Files == {"", "missing", "garbled", "unusable", "good"}
Durations == {"", "abc", "0s", "20s"}
Integers32 == {"", "abc", "3"}
Flags == {"", "allow", "forbid", "maybe"}

\* ClientConfigArgs, one variable of the environment each
Texts ==
  [endpoint |-> {"https://host", "https://[::1]", "http://host", "host:5001", "/path", "a b"},
   cert_pem |-> Files, key_pem |-> Files, ca_cert |-> Files,
   allow_unsafe_connection |-> Flags,
   override_target_name |-> {"", "name", "https://name/sub", "/sub", "[::1]", "*.name", "a b"},
   connect_timeout |-> Durations, timeout |-> Durations,
   rate_limit |-> {"", "100", "abc/1s", "100/abc", "0/1s", "100/0s", "100/1s"},
   tcp_keepalive |-> Durations, tcp_keepalive_interval |-> Durations,
   tcp_keepalive_retries |-> Integers32, tcp_nagle_algorithm |-> Flags,
   http2_keep_alive_interval |-> Durations, http2_keep_alive_timeout |-> Durations,
   http2_keep_alive_while_idle |-> Flags, http2_max_header_list_size |-> Integers32,
   user_agent |-> {"", "line break", "agent"}]

Plain == [o \in DOMAIN Texts |-> IF o = "endpoint" THEN "https://host" ELSE ""]

VARIABLES env,      \* the environment
          stage,    \* "env", the step of from_config_args, "tls", "channel" or "done"
          config,   \* the ClientConfig, as far as it is made
          tls,      \* how the connection is secured
          channel,  \* the settings of the channel
          result    \* "none", "connected", "panic" or the error

vars == <<env, stage, config, tls, channel, result>>

-----------------------------------------------------------------------------
(* Reading options.  A step is an error, or the value for ClientConfig.    *)

Ok(v) == [error |-> "none", value |-> v]
Err(e) == [error |-> e, value |-> "none"]

\* read_env_bool
IsTrue(text) == text = "allow"
NotBoolean(text) == text = "maybe"

Pem(text) ==
  CASE text = "missing" -> Err("Io")
    [] text = "garbled" -> Err("Tls")
    [] OTHER -> Ok(text)

CaCert(e) == IF e.ca_cert = "" THEN Ok("none") ELSE Pem(e.ca_cert)

\* Both files are read before either is decoded.
Identity(e) ==
  LET cert == e.cert_pem
      key == e.key_pem
  IN CASE cert = "" /\ key = "" -> Ok("none")
       [] (cert = "") # (key = "") -> Err("IncompatibleOptions")
       [] "missing" \in {cert, key} -> Err("Io")
       [] "garbled" \in {cert, key} -> Err("Tls")
       [] OTHER -> Ok(IF "unusable" \in {cert, key} THEN "unusable" ELSE "good")

Uri(scheme, authority, path) == [scheme |-> scheme, authority |-> authority, path |-> path]
NoUri == Uri("none", "none", "none")

\* Uri::try_from: an authority alone has neither a scheme nor a path.
Endpoint(e) ==
  CASE e.endpoint = "https://host" -> Ok(Uri("https", "host", "/"))
    [] e.endpoint = "https://[::1]" -> Ok(Uri("https", "[::1]", "/"))
    [] e.endpoint = "http://host" -> Ok(Uri("http", "host", "/"))
    [] e.endpoint = "host:5001" -> Ok(Uri("none", "host", "none"))
    [] e.endpoint = "/path" -> Ok(Uri("none", "none", "/path"))
    [] OTHER -> Err("Uri")

\* The authority and the path that the option gives: an authority keeps the path
\* of the endpoint, another URI brings its own.
Override(text, endpoint) ==
  CASE text \in {"name", "[::1]", "*.name"} -> <<text, endpoint.path>>
    [] text = "https://name/sub" -> <<"name", "/sub">>
    [] text = "/sub" -> <<"none", "/sub">>

\* The builder wants all parts with a scheme, and one of the two others without.
Buildable(u) ==
  IF u.scheme # "none" THEN u.authority # "none" /\ u.path # "none"
  ELSE u.authority = "none" \/ u.path = "none"

OverrideTarget(e, endpoint) ==
  IF e.override_target_name = "" THEN Ok(NoUri)
  ELSE IF e.override_target_name = "a b" THEN Err("Uri")
  ELSE LET given == Override(e.override_target_name, endpoint)
           authority == IF given[1] # "none" THEN given[1] ELSE endpoint.authority
           target == Uri(endpoint.scheme, authority, given[2])
       IN IF Buildable(target) THEN Ok(target) ELSE Err("Http")

Duration(text, default) ==
  CASE text = "" -> Ok(default)
    [] text = "abc" -> Err("InvalidDuration")
    [] OTHER -> Ok(text)

ConnectTimeout(e) == Duration(e.connect_timeout, "60s")

\* The default of the other timeout.
RequestTimeoutLikewise(e) == Duration(e.timeout, "60s")
RequestTimeout(e) == Duration(e.timeout, "none")

\* The zeroes left to the rate limiter.
RateLimitUnchecked(e) ==
  CASE e.rate_limit = "" -> Ok("none")
    [] e.rate_limit = "100" -> Err("IncompatibleOptions")
    [] e.rate_limit = "abc/1s" -> Err("InvalidRateLimitCount")
    [] e.rate_limit = "100/abc" -> Err("InvalidDuration")
    [] OTHER -> Ok(e.rate_limit)

RateLimit(e) ==
  CASE e.rate_limit = "" -> Ok("none")
    [] e.rate_limit \in {"100", "0/1s", "100/0s"} -> Err("IncompatibleOptions")
    [] e.rate_limit = "abc/1s" -> Err("InvalidRateLimitCount")
    [] e.rate_limit = "100/abc" -> Err("InvalidDuration")
    [] OTHER -> Ok(e.rate_limit)

TcpKeepalive(e) == Duration(e.tcp_keepalive, "none")
TcpKeepaliveInterval(e) == Duration(e.tcp_keepalive_interval, "none")
Http2KeepAliveInterval(e) == Duration(e.http2_keep_alive_interval, "none")
Http2KeepAliveTimeout(e) == Duration(e.http2_keep_alive_timeout, "none")

Integer(text) ==
  CASE text = "" -> Ok("none")
    [] text = "abc" -> Err("InvalidInteger")
    [] OTHER -> Ok(text)

TcpKeepaliveRetries(e) == Integer(e.tcp_keepalive_retries)
Http2MaxHeaderListSize(e) == Integer(e.http2_max_header_list_size)

UserAgent(e) ==
  CASE e.user_agent = "" -> Ok("none")
    [] e.user_agent = "line break" -> Err("InvalidUserAgent")
    [] OTHER -> Ok(e.user_agent)

\* The steps of from_config_args, in its order
Steps ==
  <<"cacert", "identity", "endpoint", "override_target", "connect_timeout", "timeout",
    "rate_limit", "tcp_keepalive", "tcp_keepalive_interval", "tcp_keepalive_retries",
    "http2_keep_alive_interval", "http2_keep_alive_timeout", "http2_max_header_list_size",
    "user_agent">>

Step(name) ==
  CASE name = "cacert" -> CaCert(env)
    [] name = "identity" -> Identity(env)
    [] name = "endpoint" -> Endpoint(env)
    [] name = "override_target" -> OverrideTarget(env, config.endpoint)
    [] name = "connect_timeout" -> ConnectTimeout(env)
    [] name = "timeout" -> RequestTimeout(env)
    [] name = "rate_limit" -> RateLimit(env)
    [] name = "tcp_keepalive" -> TcpKeepalive(env)
    [] name = "tcp_keepalive_interval" -> TcpKeepaliveInterval(env)
    [] name = "tcp_keepalive_retries" -> TcpKeepaliveRetries(env)
    [] name = "http2_keep_alive_interval" -> Http2KeepAliveInterval(env)
    [] name = "http2_keep_alive_timeout" -> Http2KeepAliveTimeout(env)
    [] name = "http2_max_header_list_size" -> Http2MaxHeaderListSize(env)
    [] name = "user_agent" -> UserAgent(env)

-----------------------------------------------------------------------------
\* At most MaxSet options are other than plain, or one is not unicode.
Init ==
  /\ \/ env \in UNION {{[o \in DOMAIN Texts |-> IF o \in DOMAIN f THEN f[o] ELSE Plain[o]] :
                           f \in {g \in [set -> UNION {Texts[o] : o \in set}] :
                                    \A o \in set : g[o] \in Texts[o]}} :
                        set \in {s \in SUBSET DOMAIN Texts : Cardinality(s) <= MaxSet}}
     \/ env \in {[Plain EXCEPT ![o] = "not unicode"] : o \in DOMAIN Texts}
  /\ stage = "env" /\ result = "none"
  /\ config = <<>> /\ tls = <<>> /\ channel = <<>>

Fail(e) == result' = e /\ stage' = "done"

BoolOptions == {"allow_unsafe_connection", "tcp_nagle_algorithm", "http2_keep_alive_while_idle"}

\* ClientConfigArgs::from_env
FromEnv ==
  /\ stage = "env"
  /\ IF \E o \in DOMAIN env : env[o] = "not unicode" \/ (o \in BoolOptions /\ NotBoolean(env[o]))
     THEN Fail("Env") /\ UNCHANGED config
     ELSE /\ config' = [o \in BoolOptions |-> IsTrue(env[o])]
          /\ stage' = Steps[1]
          /\ UNCHANGED result
  /\ UNCHANGED <<env, tls, channel>>

\* The next step of ClientConfig::from_config_args
FromConfigArgs ==
  \E i \in 1 .. Len(Steps) :
    LET step == Step(Steps[i]) IN
    /\ stage = Steps[i]
    /\ IF step.error # "none" THEN Fail(step.error) /\ UNCHANGED config
       ELSE /\ config' = [n \in DOMAIN config \cup {Steps[i]} |->
                            IF n = Steps[i] THEN step.value ELSE config[n]]
            /\ stage' = IF i = Len(Steps) THEN "tls" ELSE Steps[i + 1]
            /\ UNCHANGED result
    /\ UNCHANGED <<env, tls, channel>>

\* A server name is a DNS name or an address.  A URI may have other hosts: an IPv6
\* address in its brackets, none at all, or what is no DNS name ("*.name": a
\* wildcard, a "~", a label of more than 63 characters).
IsServerName(authority) == authority \notin {"[::1]", "*.name", "none"}

\* The certificate that the server must be signed by
Verified ==
  IF config.allow_unsafe_connection THEN "nothing"
  ELSE IF config.cacert # "none" THEN "cacert" ELSE "native roots"

\* The override name leads to a host that is no server name.
NamesNoServer ==
  config.override_target # NoUri /\ ~IsServerName(config.override_target.authority)

UnusableCa == Verified = "cacert" /\ config.cacert = "unusable"

\* https_connector: the roots, then the identity, then the name of the server
TlsSetUp ==
  /\ stage = "tls"
  /\ \/ Verified = "native roots" /\ Fail("Io") /\ UNCHANGED tls
     \/ /\ UnusableCa \/ config.identity = "unusable"
        /\ Fail("Tls") /\ UNCHANGED tls
     \/ /\ ~UnusableCa /\ config.identity # "unusable" /\ NamesNoServer
        /\ Fail("panic") /\ UNCHANGED tls
     \/ /\ ~UnusableCa /\ config.identity # "unusable" /\ ~NamesNoServer
        /\ tls' = [verified |-> Verified, identity |-> config.identity,
                   name |-> IF config.override_target = NoUri THEN config.endpoint.authority
                            ELSE config.override_target.authority,
                   nodelay |-> ~config.tcp_nagle_algorithm,
                   keepalive |-> <<config.tcp_keepalive, config.tcp_keepalive_interval,
                                   config.tcp_keepalive_retries>>,
                   connect_timeout |-> config.connect_timeout]
        /\ stage' = "channel" /\ UNCHANGED result
  /\ UNCHANGED <<env, config, channel>>

\* connect: the rate limiter asserts that neither part is zero, and only http and
\* https endpoints connect.
Connect ==
  /\ stage = "channel"
  /\ channel' = [origin |-> IF config.override_target = NoUri THEN config.endpoint
                            ELSE config.override_target,
                 timeout |-> config.timeout, rate_limit |-> config.rate_limit,
                 pings |-> <<config.http2_keep_alive_interval, config.http2_keep_alive_timeout,
                             config.http2_keep_alive_while_idle>>,
                 max_header_list_size |-> config.http2_max_header_list_size,
                 user_agent |-> config.user_agent]
  /\ \/ config.rate_limit \in {"0/1s", "100/0s"} /\ Fail("panic")
     \/ /\ config.rate_limit \notin {"0/1s", "100/0s"}
        /\ Fail("Transport") \/ (config.endpoint.scheme # "none" /\ Fail("connected"))
  /\ UNCHANGED <<env, config, tls>>

Next == FromEnv \/ FromConfigArgs \/ TlsSetUp \/ Connect

Spec == Init /\ [][Next]_vars

-----------------------------------------------------------------------------
(* Properties.                                                             *)

\* A mistyped option is an error that the caller can read, not a panic inside
\* connect: the parser rejects what the layers below assert, except an override
\* that leads to a host that is neither a DNS name nor an address.
NoPanicInConnect == result = "panic" => NamesNoServer

\* https_connector says "A valid URI host should be a valid ServerName", so that
\* its expect never panics.  It does, for every URI host that is no server name.
ValidHostIsServerName == result # "panic"

\* An option as written, or nothing.
Given(text) == IF text = "" THEN "none" ELSE text

\* The host of an endpoint that connects.
EndpointHost == IF env.endpoint = "https://[::1]" THEN "[::1]" ELSE "host"

\* A channel that connects is the one that the environment describes.  Every
\* option that is set takes effect, on the connection or on the channel, and
\* what is not set is off (but for the connect timeout).  An https server is
\* verified by the given CA, or by those of the system, unless that is switched
\* off; it is shown the given identity, and its name is the override's.
ConnectedAsConfigured ==
  result = "connected" =>
    /\ env.endpoint # "http://host" =>
         /\ tls.verified = IF env.allow_unsafe_connection = "allow" THEN "nothing"
                           ELSE IF env.ca_cert = "" THEN "native roots" ELSE "cacert"
         /\ (tls.identity = "good") = (env.cert_pem = "good" /\ env.key_pem = "good")
         /\ tls.name = IF env.override_target_name \in {"", "/sub"} THEN EndpointHost ELSE "name"
    /\ channel.origin.scheme = (IF env.endpoint = "http://host" THEN "http" ELSE "https")
    /\ channel.origin.path = IF env.override_target_name \in {"", "name"} THEN "/" ELSE "/sub"
    /\ env.connect_timeout # "" => tls.connect_timeout = env.connect_timeout
    /\ tls.nodelay = (env.tcp_nagle_algorithm # "allow")
    /\ tls.keepalive = <<Given(env.tcp_keepalive), Given(env.tcp_keepalive_interval),
                         Given(env.tcp_keepalive_retries)>>
    /\ channel.timeout = Given(env.timeout) /\ channel.rate_limit = Given(env.rate_limit)
    /\ channel.pings = <<Given(env.http2_keep_alive_interval), Given(env.http2_keep_alive_timeout),
                         env.http2_keep_alive_while_idle = "allow">>
    /\ channel.max_header_list_size = Given(env.http2_max_header_list_size)
    /\ channel.user_agent = Given(env.user_agent)

\* ClientConfigArgs documents of connect_timeout that it "defaults to no timeout".
\* from_config_args makes it a minute.
ConnectTimeoutIsOptional ==
  result = "connected" /\ env.connect_timeout = "" => tls.connect_timeout = "none"

\* ClientConfig documents allow_unsafe_connection as "Allow unsafe connections to
\* the endpoint (without SSL), defaults to false".  The connector takes an http
\* endpoint whatever the option says, which only switches the verification off.
UnsafeOnlyIfAllowed ==
  result = "connected" /\ channel.origin.scheme = "http" =>
    env.allow_unsafe_connection = "allow"
=============================================================================
