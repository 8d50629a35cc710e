------------------------------- MODULE Ports -------------------------------
(* What the library takes from the runtime it is on: runtime/os.ts,           *)
(* runtime/process.ts, io/file.ts, io/dns.ts, io/ffi.ts and the modules of io *)
(* that wrap a Web API, each with its adapters. A method of an adapter is     *)
(* "absent" (or is always undefined), a "constant", reads what cannot fail    *)
(* ("plain"), or it calls the runtime and lets an exception through           *)
(* ("direct"), makes it undefined ("caught") or a constant ("safe").          *)
EXTENDS FiniteSets

CONSTANT Hosts  \* the runtimes: [deno, process, importable, requirable, navigator, lacks]

VARIABLES host,
          required,  \* cachedRequire: "unset", "null" or "ready"
          osAdapter, \* of runtime/os.ts, resolved when the module is loaded, or "unresolved"
          ports,     \* the adapters that io modules keep: "unset", "null", "deno" or "node"
          called     \* the last call: [port, op, fails, answer]

portVars == <<host, required, osAdapter, ports, called>>

OsOps == {"hostname", "arch", "platform", "cpuCount", "totalMemory", "freeMemory", "tmpDir", "homeDir", "uptime",
          "osRelease", "loadavg", "networkInterfaces"}
ProcessOps == {"cwd", "pid", "ppid", "uptime", "memoryUsage", "env", "envOf", "argv", "uid", "gid", "execPath", "exit"}
FileOps == {"read", "write", "append", "exists", "makeDir", "remove", "removeDir", "list", "stat", "copy", "rename", "tempDir",
            "readBytes", "writeBytes", "symlink", "link", "chmod", "chown", "truncate", "realPath", "readLink", "lstat"}
LaterFileOps == {"readBytes", "writeBytes", "symlink", "link", "chmod", "chown", "truncate", "realPath", "readLink", "lstat"}
WebOps == {"Json.parse", "Json.stringify", "Clone.deep", "Url.parse", "Compression.gzip", "Compression.gunzip",
           "Encoding.base64.decode", "Encoding.utf8.decode"}

\* What comes out of a method of an adapter.
Outcome(method, fails) ==
  CASE method = "absent" -> "absent"
    [] method = "constant" -> "default"
    [] method \notin {"absent", "constant"} /\ ~fails -> "value"
    [] method = "caught" /\ fails -> "undefined"
    [] method = "safe" /\ fails -> "default"
    [] method = "direct" /\ fails -> "throws"

IfThere(op, method) == IF op \in host.lacks THEN "absent" ELSE method
-----------------------------------------------------------------------------
\* The methods of the adapters for Deno and for Node, and of the one for neither.
DenoOs(op) ==
  CASE op \in {"arch", "platform"} -> "plain"
    [] op = "cpuCount" -> IF host.navigator THEN "plain" ELSE "absent"
    [] op = "tmpDir" -> "safe"
    [] op \in {"uptime", "osRelease", "loadavg"} -> IfThere(op, "caught")
    [] op = "networkInterfaces" -> IfThere(op, "safe")
    [] OTHER -> "caught"

NodeOs(op) ==
  CASE op \in {"arch", "platform"} -> "plain"
    [] op = "cpuCount" /\ host.navigator -> "plain"
    [] op \in {"tmpDir", "homeDir", "networkInterfaces"} -> "safe"
    [] OTHER -> "caught"

FallbackOs(op) ==
  CASE op \in {"arch", "platform", "tmpDir"} -> "constant"
    [] op = "homeDir" /\ host.process -> "plain"
    [] op = "cpuCount" /\ host.navigator -> "plain"
    [] OTHER -> "absent"

DenoProcess(op) ==
  CASE op = "uid" \/ op = "gid" -> IfThere(op, "caught")
    [] op \in {"uptime", "execPath"} -> IfThere(op, "safe")
    [] op = "memoryUsage" -> IfThere(op, "direct")
    [] op = "env" -> "safe"
    [] op = "envOf" -> "caught"
    [] op = "cwd" -> "direct"
    [] OTHER -> IfThere(op, "plain")

NodeProcess(op) ==
  CASE op \in {"uid", "gid"} -> IfThere(op, "direct")
    [] op \in {"cwd", "uptime", "memoryUsage"} -> "direct"
    [] OTHER -> IfThere(op, "plain")

DenoFs(op) == IF op \in LaterFileOps THEN IfThere(op, "direct") ELSE "direct"
NodeFs(op) == "direct"
-----------------------------------------------------------------------------
\* initRequire(): the promise that it returns, requireReady, settles some time after.
InitRequire ==
  /\ required = "unset"
  /\ required' = IF host.requirable THEN "ready" ELSE "null"
  /\ UNCHANGED <<host, osAdapter, ports, called>>

\* requireNode(): with nothing to require by, null, and for good.
NodeOsModule == IF required = "ready" THEN "node" ELSE "null"

\* resolveOsInfo(), for which the module waits.
ResolveOsInfo ==
  /\ osAdapter = "unresolved" /\ required # "unset"
  /\ osAdapter' = IF host.deno THEN "deno" ELSE IF NodeOsModule = "node" THEN "node"
                  ELSE IF host.process \/ host.navigator THEN "fallback" ELSE "none"
  /\ UNCHANGED <<host, required, ports, called>>

\* resolveProcessInfo(): Deno, then anything with a process.
ProcessAdapter == IF host.deno THEN "deno" ELSE IF host.process THEN "node" ELSE "none"

\* getFs() and getAdapter(): what is found first is kept, nothing as well.
Resolved(port) ==
  IF ports[port] # "unset" THEN ports[port] ELSE IF host.deno /\ port \notin host.lacks THEN "deno"
  ELSE IF host.importable THEN "node" ELSE "null"

\* os.ts: an Option, or a constant for what always has an answer.
OsAnswer(op, outcome) ==
  IF outcome \in {"throws", "value"} THEN outcome
  ELSE IF op \in {"arch", "platform", "tmpDir", "networkInterfaces"} \/ (outcome = "default" /\ op = "homeDir")
  THEN "default" ELSE "None"

\* process.ts: an Option, what is thrown is None; of cwd() a Result.
ProcessAnswer(op, outcome) ==
  CASE op = "exit" -> IF outcome = "value" THEN "exits" ELSE "throws"
    [] op # "exit" /\ outcome \in {"value", "default"} -> outcome
    [] op # "exit" /\ outcome \notin {"value", "default"} ->
         IF op = "cwd" THEN "Err" ELSE IF op \in {"env", "argv"} THEN "default" ELSE "None"

\* Mutant of WithFs: the call is made outside the try.
WithFsBare(outcome) == CASE outcome = "value" -> "Ok" [] outcome = "none" -> "Err" [] OTHER -> "throws"

\* withFs(), and the same in the other modules: nothing, an exception and a method that is not
\* there are an Err.
WithFs(outcome) == IF outcome = "value" THEN "Ok" ELSE "Err"

\* file.ts, where exists() takes every exception for a no.
FileAnswer(op, outcome) == IF op = "exists" /\ outcome = "throws" THEN "Ok" ELSE WithFs(outcome)

Call(port, op, method, fails, answer) ==
  /\ fails => method \notin {"plain", "constant"}
  /\ called' = [port |-> port, op |-> op, fails |-> fails, answer |-> answer]

CallOs(op, fails) ==
  /\ osAdapter # "unresolved"
  /\ LET method == CASE osAdapter = "deno" -> DenoOs(op) [] osAdapter = "node" -> NodeOs(op)
                     [] osAdapter = "fallback" -> FallbackOs(op) [] OTHER -> "absent"
     IN  Call("os", op, method, fails, OsAnswer(op, Outcome(method, fails)))
  /\ UNCHANGED <<host, required, osAdapter, ports>>

CallProcess(op, fails) ==
  /\ LET method == CASE ProcessAdapter = "deno" -> DenoProcess(op) [] ProcessAdapter = "node" -> NodeProcess(op)
                     [] OTHER -> "absent"
     IN  Call("process", op, method, fails, ProcessAnswer(op, Outcome(method, fails)))
  /\ UNCHANGED <<host, required, osAdapter, ports>>

CallFile(op, fails) ==
  /\ LET method == CASE Resolved("fs") = "deno" -> DenoFs(op) [] Resolved("fs") = "node" -> NodeFs(op) [] OTHER -> "none"
     IN  Call("file", op, method, fails, FileAnswer(op, IF method = "none" THEN "none" ELSE Outcome(method, fails)))
  /\ ports' = [ports EXCEPT !["fs"] = Resolved("fs")]
  /\ UNCHANGED <<host, required, osAdapter>>

\* dns.lookup(): on Deno, the A records and, with none, the AAAA records.
CallLookup(a, aaaa) ==
  /\ LET found == IF Resolved("dns") = "deno"
                  THEN IF a = "some" \/ aaaa = "some" THEN "value" ELSE "throws"
                  ELSE IF Resolved("dns") = "null" THEN "none" ELSE Outcome("direct", a # "some")
     IN  Call("dns", "lookup", "direct", a # "some" /\ (Resolved("dns") = "deno" => aaaa # "some"), WithFs(found))
  /\ ports' = [ports EXCEPT !["dns"] = Resolved("dns")]
  /\ UNCHANGED <<host, required, osAdapter>>

\* FFI.open(): by Deno, else by Bun, else by Node; whatever is thrown is an Err.
CallOpen(fails) ==
  /\ Call("ffi", "open", "direct", fails, WithFs(Outcome("direct", fails)))
  /\ UNCHANGED <<host, required, osAdapter, ports>>

\* The calls of a Web API within a try.
CallWeb(op, fails) ==
  /\ Call("web", op, "direct", fails, WithFs(Outcome(IfThere(op, "direct"), fails)))
  /\ UNCHANGED <<host, required, osAdapter, ports>>

PortsInit ==
  /\ host \in Hosts
  /\ required = "unset" /\ osAdapter = "unresolved"
  /\ ports = [port \in {"fs", "dns"} |-> "unset"]
  /\ called = [port |-> "none", op |-> "none", fails |-> FALSE, answer |-> "none"]

PortsNext ==
  \/ InitRequire \/ ResolveOsInfo
  \/ \E fails \in BOOLEAN :
       \/ \E op \in OsOps : CallOs(op, fails)
       \/ \E op \in ProcessOps : CallProcess(op, fails)
       \/ \E op \in FileOps : CallFile(op, fails)
       \/ \E op \in WebOps : CallWeb(op, fails)
       \/ CallOpen(fails)
  \/ \E a, aaaa \in {"some", "empty", "throws"} : CallLookup(a, aaaa)

PortsSpec == PortsInit /\ [][PortsNext]_portVars
-----------------------------------------------------------------------------
\* What a runtime may be without: on Deno and on Node, what their adapters ask for before they
\* offer it, and anywhere a Web API or a port.
Spared(h) ==
  WebOps \cup {"fs", "dns"} \cup
  (IF ~h.deno THEN {"uid", "gid", "ppid", "execPath"}
   ELSE {"uptime", "osRelease", "loadavg", "networkInterfaces", "uid", "gid", "ppid", "execPath", "memoryUsage"}
        \cup IF "fs" \in h.lacks THEN {} ELSE LaterFileOps)

\* os-adapter.ts: what requires a module of Node has a process.
ASSUME PortsAssumption ==
  \A h \in Hosts :
    /\ \A flag \in {h.deno, h.process, h.importable, h.requirable, h.navigator} : flag \in BOOLEAN
    /\ h.requirable => h.process
    /\ h.lacks \subseteq Spared(h)

\* What the host itself offers of a port; on Deno it is what Deno offers.
Offered(port, op) ==
  /\ op \notin host.lacks
  /\ CASE port = "os" -> \/ host.deno /\ (op = "cpuCount" => host.navigator)
                         \/ ~host.deno /\ host.process /\ (host.requirable \/ op = "homeDir")
                         \/ op = "cpuCount" /\ host.navigator
       [] port = "process" -> host.deno \/ host.process
       [] port = "file" -> (host.deno /\ "fs" \notin host.lacks) \/ host.importable
       [] port = "dns" -> (host.deno /\ "dns" \notin host.lacks) \/ host.importable
       [] OTHER -> TRUE

\* os.ts:24 "All methods return Option or a safe default, never throw", and so the others: no
\* call throws but an exit that nothing can make; what the host offers and does is answered by
\* a value, whenever the module was loaded; and what it does not is answered by None, Err or a
\* constant.
PortsAnswer ==
  LET c == called
      does == Offered(c.port, c.op) /\ ~c.fails
  IN  c.port # "none" =>
        /\ c.answer = "throws" => c.op = "exit" /\ ~host.deno /\ ~host.process
        /\ does => c.answer \in {"value", "Ok", "exits"}
        /\ ~does => c.answer \in {"None", "Err", "default", "throws"} \/ (c.op = "exists" /\ c.answer = "Ok")
=============================================================================
