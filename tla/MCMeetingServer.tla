-------------------------- MODULE MCMeetingServer --------------------------
(***************************************************************************)
(* Values of the constants of MeetingServer for TLC.  Each run has its own *)
(* set of requests: the ones whose interleavings its question is about.    *)
(***************************************************************************)
EXTENDS MeetingServer, TLC

CONSTANTS ann, ben, cat, once, weekly, endless

WorkersAlike == Permutations(Workers)

\* For runs whose properties do not read the history variables.
ProgramState == <<rtcVars, serverVars>>

Entering(op) == [op : {op}, user : Users, meeting : MeetingIDs]
Detailed(op, infos) == [op : {op}, user : Users, meeting : MeetingIDs, info : infos]
Founding(op, users, infos) == [op : {op}, user : users, info : infos]
Sweeping(op, users) == [op : {op}, user : users]
Ending(users, types) ==
  [op : {"End"}, user : users, meeting : MeetingIDs, type : types]
Tuning(users, targets, values) ==
  [op : {"SetPersonal"}, user : users, meeting : MeetingIDs,
   target : targets, value : values]
Hosting(users, hosts, cohosts) ==
  [op : {"SetHost"}, user : users, meeting : MeetingIDs, host : hosts, cohosts : cohosts]
Removing(users, targets) ==
  [op : {"Remove"}, user : users, meeting : MeetingIDs, targets : targets]

\* The life of two meetings, ann's and ben's: everything that writes documents,
\* with failures.  ann also tries what only ben may do.
LifeCalls ==
  Founding("Book", {ann}, {weekly}) \cup Founding("Create", {ben}, {once})
    \cup Ending({ann}, {"End", "Cancel"})
    \cup [op : {"Update"}, user : {ann}, meeting : MeetingIDs, info : {once}]
    \cup Sweeping("GetMeetings", {ann})

\* Authority: ann's meeting, opened by ann or ben; ann makes ben its host, ben
\* makes cat co-host and sets devices; updates run in between.
AuthorityCalls ==
  Founding("Create", {ann}, {weekly})
    \cup [op : {"Join"}, user : {ben}, meeting : MeetingIDs, info : {weekly}]
    \cup [op : {"Update"}, user : {ann}, meeting : MeetingIDs, info : {weekly}]
    \cup Hosting({ann}, {ben}, {{}}) \cup Hosting({ben}, {None}, {{cat}})
    \cup Tuning({ben}, {ben}, {"on"}) \cup Tuning({ben}, {cat}, {"off"})

\* One handler at a time, all of them.
AloneCalls ==
  Founding("Book", {ann}, {weekly}) \cup Founding("Create", {ann}, {once})
    \cup Detailed("Join", {once, weekly}) \cup Detailed("Update", {once, weekly})
    \cup Entering("Token") \cup Entering("Leave")
    \cup Ending({ben}, {"End", "Cancel", "Other"})
    \cup Tuning(Users, Users, {"unset", "on", "off"})
    \cup Hosting(Users, Users, {{}}) \cup Hosting({ann}, {None}, {{ben}})
    \cup Removing({ann}, {Users})
    \cup Sweeping("Clean", {ben}) \cup Sweeping("GetMeetings", {ann})

\* The loops over rooms (in CreateImmediateMeeting) and meetings, and the search for
\* the next session, with one meeting that may be deleted meanwhile.
LoopCalls ==
  Founding("Create", {ann}, {once}) \cup Founding("Book", {ann}, {endless})
    \cup Sweeping("GetMeetings", {ann})
    \cup [op : {"End"}, user : {ann}, meeting : {1}, type : {"Cancel"}]

\* Two joiners, or a joiner and somebody who sets a device.
SettingCalls ==
  Founding("Create", {ann}, {weekly}) \cup Detailed("Join", {weekly})
    \cup Tuning({ben}, {ben}, {"on"})
=============================================================================
