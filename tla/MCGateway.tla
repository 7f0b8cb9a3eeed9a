------------------------------ MODULE MCGateway ------------------------------
(* Starts with and without keys, files, directories and a proxy in front.   *)
EXTENDS Gateway, TLC

Public == Arg("--host", "0.0.0.0")
NoEnvironment == [host |-> Unset, authKey |-> Unset, stateDir |-> Unset]
NoFiles == [p \in {} |-> NoFile]
File(f) == [p \in {"claude-worker.config.mjs"} |-> f]
Run(argv) == [argv |-> argv, env |-> NoEnvironment, files |-> NoFiles]
Alike == Permutations(Proxied) \cup Permutations(Slot)
MCTold ==
    { Run(<<>>),
      Run(<<Public>>),
      Run(<<Public, Arg("--trust-proxy", Unset), Arg("--state-dir", "beside")>>),
      Run(<<Public, Arg("--host", "127.0.0.1"), Arg("--allowed-host", "inner.name")>>),
      Run(<<Public, Arg("--insecure", Unset)>>),
      Run(<<Public, Arg("--insecure-host", "0.0.0.0"), Arg("--insecure-host", "inner.name")>>),
      Run(<<Public, Arg("--no-parking-store", Unset), Arg("--allowed-origin", "outer")>>),
      Run(<<Arg("--config", "absent.mjs")>>),
      Run(<<Arg("--host", Unset)>>), Run(<<Public, Arg("--port", "70000")>>),
      Run(<<Arg("--hots", "0.0.0.0")>>),
      Run(<<Public, Arg("--insecure-host", "inner.name:80")>>),
      Run(<<Public, Arg("--help", Unset)>>),
      [Run(<<>>) EXCEPT !.env.authKey = 1],
      [Run(<<>>) EXCEPT !.files = File([NoFile EXCEPT !.authenticate = TRUE, !.host = "0.0.0.0"])],
      [Run(<<Public>>) EXCEPT !.files = File([NoFile EXCEPT !.stateDir = "home"])],
      [Run(<<Public>>) EXCEPT !.files = File(NoFile)],
      [Run(<<>>) EXCEPT !.files = File([NoFile EXCEPT !.secret = 2])] }
=============================================================================
