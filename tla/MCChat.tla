---- MODULE MCChat ----
(***************************************************************************)
(* The chat with two pages.  Each budget is a scenario: what users, agent  *)
(* and network may still do, so that one run has the long conversations    *)
(* and the crossing file answers without their product.                    *)
(***************************************************************************)
EXTENDS Chat

CONSTANTS p1, p2

UploadFile  == <<"uploads", "a">>
RefusedFile == <<"uploads", "b">>
OutputFile  == <<"out", "a">>

MCFile == {UploadFile, RefusedFile, OutputFile}
MCUploads == {UploadFile, RefusedFile}
MCRefused == {RefusedFile}
MCUploadLists == {<<UploadFile>>, <<UploadFile, RefusedFile>>}

Nothing ==
    [tabs |-> {p1, p2}, files |-> {}, late |-> 0, listings |-> 0, submits |-> 0, resets |-> 0,
     uploads |-> 0, views |-> 0, closings |-> 0, drops |-> 0, losses |-> 0,
     failures |-> 0, outputs |-> 0, traces |-> 0]

MCBudgets ==
    { [Nothing EXCEPT !.submits = 2, !.resets = 1],
      [Nothing EXCEPT !.submits = 2, !.losses = 1, !.failures = 1],
      [Nothing EXCEPT !.tabs = {p1}, !.submits = 2, !.resets = 1, !.late = 1, !.drops = 1,
                      !.traces = 1],
      [Nothing EXCEPT !.tabs = {p1}, !.uploads = 2, !.listings = 2, !.losses = 1],
      [Nothing EXCEPT !.uploads = 1, !.listings = 1, !.drops = 1],
      [Nothing EXCEPT !.submits = 1, !.outputs = 1, !.listings = 1],
      [Nothing EXCEPT !.tabs = {p1}, !.files = {UploadFile, OutputFile}, !.listings = 1,
                      !.views = 2, !.closings = 1] }
====
