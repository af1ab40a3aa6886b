--------------------------- MODULE MCRequestManager ---------------------------
(***************************************************************************)
(* Small instances of RequestManager: what the framework submits.          *)
(***************************************************************************)
EXTENDS RequestManager, TLC

\* The camera application's order: a still capture is taken from preview and
\* followed by preview, a snapshot is taken while recording.
UsualOrder ==
  {<<"none", "preview">>, <<"none", "record">>, <<"none", "still">>,
   <<"preview", "preview">>, <<"preview", "record">>, <<"preview", "still">>,
   <<"preview", "callback">>, <<"callback", "preview">>, <<"callback", "still">>,
   <<"record", "record">>, <<"record", "snapshot">>, <<"record", "preview">>,
   <<"snapshot", "snapshot">>, <<"snapshot", "record">>,
   <<"still", "preview">>, <<"still", "callback">>}

\* Still captures may also follow one another, as in a burst of pictures.
BurstOrder == {<<"none", "preview">>, <<"none", "still">>, <<"preview", "preview">>,
               <<"preview", "still">>, <<"still", "preview">>, <<"still", "still">>}

\* Errors of the device thread, together with those of the JPEG stream or of
\* starting a stream, and the errors that end a request before its streams run.
DeviceOrEarly == {{"device", "process"}, {"device", "start"},
                  {"configure", "metadata", "setCurrentRequest"}}

===============================================================================
