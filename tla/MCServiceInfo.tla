--------------------------- MODULE MCServiceInfo ---------------------------
(***************************************************************************)
(* An instance of ServiceInfo for TLC: one entry of each module.           *)
(***************************************************************************)
EXTENDS ServiceInfo, TLC

CONSTANTS file, dir

Paths == {file, dir}

Of(fsim, path, may_fail) == [fsim |-> fsim, path |-> path, may_fail |-> may_fail]

OneOfEach ==
    <<Of("fdo.download", file, FALSE), Of("fdo.upload", dir, FALSE),
      Of("fdo.wget", file, FALSE), Of("fdo.command", file, FALSE)>>
=============================================================================
