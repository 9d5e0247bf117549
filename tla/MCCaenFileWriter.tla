-------------------------- MODULE MCCaenFileWriter --------------------------
(* Instances of CaenFileWriter for TLC: one configuration of each kind. *)
EXTENDS CaenFileWriter

MCSettings(splitting, stopped, finished, conflict, pattern, total) ==
    [file_splitting |-> splitting, when_stopped_writing |-> stopped,
     when_finished_run |-> finished, when_name_conflict |-> conflict,
     filename_pattern |-> pattern, max_events_per_file |-> 2, max_total_events |-> total]

(* Between them: every value of every setting, patterns that lack a field. *)
MCSettingsSet == {
    MCSettings("FilePerDevice", "Pause", "ClearLast", "Stop", Fields, 2),
    MCSettings("FilePerDeviceHead", "Pause", "IgnoreLast", "NextFilenames", {"ch", "filenum"}, 9),
    MCSettings("FilePerChannel", "CloseFiles", "IgnoreLast", "NextFilenames", {"run", "ch"}, 9),
    MCSettings("FilePerChannelHead", "CloseAndTrim", "ClearLast", "Stop", Fields, 9),
    MCSettings("FilePerDevice", "CloseAndTrim", "IgnoreLast", "Overwrite", {"ch", "filenum"}, 9),
    MCSettings("FilePerDeviceHead", "Pause", "ClearLast", "Overwrite", {"run", "filenum"}, 9)}

MCStopSettings == {MCSettings("FilePerDevice", "CloseFiles", "IgnoreLast", "Stop", Fields, 9)}

MCChannelLists == {<<>>, <<"a", "b">>, <<"b">>}
MCSameChannels == {<<"a", "b">>}

(* A disk without files, or with two that an earlier process has written. *)
MCLeftovers == {{}, {[run |-> 0, filenum |-> 1, ch |-> ""], [run |-> 1, filenum |-> 0, ch |-> ""]}}
MCNoLeftovers == {{}}
=============================================================================
