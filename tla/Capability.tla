----------------------------- MODULE Capability -----------------------------
(***************************************************************************)
(* The capability model of capguard/core.py: when a granted capability     *)
(* covers a requested one (attenuation), which argument values it lets     *)
(* through (enforcement), and the baseline policy over both.               *)
(*                                                                         *)
(* A path is the sequence of its components.  A path pattern is a          *)
(* directory, or with glob everything beneath it ("dir/*"); other globs    *)
(* and symbolic links are left out.  What a domain entry or a command name *)
(* admits is a CONSTANT.                                                   *)
(***************************************************************************)
EXTENDS Integers, Sequences, FiniteSets, SequencesExt

CONSTANTS
  Wildcard,   \* the entry "*" of an allow-list or a domain list
  HostsOf     \* the hosts a domain entry admits, ".example.com" its subdomains

FileTypes == {"file_read", "file_write"}

(* The arguments of one capability are those of its constructor. *)
Shell(allowlist, timeout) == [type |-> "shell_exec", allowlist |-> allowlist, timeout |-> timeout]
Http(domains) == [type |-> "network_http", domains |-> domains]
File(type, paths) == [type |-> type, paths |-> paths]
Db(read_only) == [type |-> "db_query", read_only |-> read_only]
Custom(params) == [type |-> "custom", params |-> params]

Dir(path) == [dir |-> path, glob |-> FALSE]
Under(path) == [dir |-> path, glob |-> TRUE]

(* _path_covers: pattern against pattern. *)
PathCovers(g, r) ==
  IsPrefix(g.dir, r.dir) /\ (r.dir = g.dir => r.glob \/ ~g.glob)

(* _path_contains: pattern against the resolved path of the call. *)
PathContains(g, path) ==
  IsPrefix(g.dir, path) /\ (path = g.dir => ~g.glob)

(* Capability.covers *)
Covers(granted, requested) ==
  /\ granted.type = requested.type
  /\ CASE granted.type = "shell_exec" ->
            /\ Wildcard \in granted.allowlist \/ requested.allowlist \subseteq granted.allowlist
            /\ requested.timeout <= granted.timeout
       [] granted.type = "network_http" ->
            Wildcard \in granted.domains \/ requested.domains \subseteq granted.domains
       [] granted.type \in FileTypes ->
            \A r \in requested.paths : \E g \in granted.paths : PathCovers(g, r)
       [] granted.type = "db_query" -> requested.read_only \/ ~granted.read_only
       [] OTHER -> granted.params = requested.params

(* Capability.enforce on an argument: `clean` says that it holds no hidden *)
(* characters, shell metacharacters or unparsable quoting, `target` is the *)
(* program, host, resolved path or kind of query it comes down to.         *)
Enforces(c, value) ==
  CASE c.type = "shell_exec" ->
         value.clean /\ (Wildcard \in c.allowlist \/ value.target \in c.allowlist)
    [] c.type = "network_http" ->
         value.clean /\ (Wildcard \in c.domains \/ \E d \in c.domains : value.target \in HostsOf[d])
    [] c.type \in FileTypes ->
         value.clean /\ \E g \in c.paths : PathContains(g, value.target)
    [] c.type = "db_query" -> c.read_only => value.target = "read"
    [] OTHER -> TRUE

(* AgentIdentity.covers over the capabilities an agent holds, in order. *)
HeldCovers(held, requested) == \E i \in DOMAIN held : Covers(held[i], requested)
AllCovered(held, caps) == \A i \in DOMAIN caps : HeldCovers(held, caps[i])

(* AgentIdentity.effective_capability: the first one that covers, which is *)
(* the one at `i`.                                                         *)
EffectiveCapability(held, requested, i) ==
  Covers(held[i], requested) /\ \A j \in 1..(i - 1) : ~Covers(held[j], requested)

(* AgentRuntime._enforce_arguments: each capability the tool requires      *)
(* bounds the argument it is bound to by what the agent was granted, not   *)
(* by what the tool declares.  A capability whose argument is absent from  *)
(* the call bounds nothing.                                                *)
ArgumentsEnforced(held, caps, args) ==
  \A i \in DOMAIN caps :
    i \in DOMAIN args =>
      \E e \in DOMAIN held :
        EffectiveCapability(held, caps[i], e) /\ Enforces(held[e], args[i])

(* The keyword argument the constructors bind a capability to by default;  *)
(* one without a scope of files, as Aegis grants it, is bound to none.     *)
BoundArg(c) ==
  CASE c.type = "shell_exec" -> "cmd"
    [] c.type = "network_http" -> "url"
    [] c.type \in FileTypes /\ c.paths # {} -> "path"
    [] c.type = "db_query" -> "query"
    [] OTHER -> ""

(* The arguments of a call, each at the capability it is bound to. *)
Bound(caps, kwargs) ==
  [i \in {j \in DOMAIN caps : BoundArg(caps[j]) \in DOMAIN kwargs} |-> kwargs[BoundArg(caps[i])]]

(* Policy.evaluate.  Severities are ranks. *)
Evaluate(held, tool, deny_by_default, max_auto_allow) ==
  CASE ~AllCovered(held, tool.caps) -> "deny"
    [] tool.caps = << >> /\ deny_by_default /\ tool.severity > 0 -> "deny"
    [] OTHER -> IF tool.severity <= max_auto_allow THEN "allow" ELSE "require_approval"
=============================================================================
