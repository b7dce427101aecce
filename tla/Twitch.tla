--------------------------------- MODULE Twitch ---------------------------------
(***************************************************************************)
(* The Twitch monitor, in two parts that are each taken on their own while *)
(* the other is idle: what it knows of the streamers, and what it shows of *)
(* them on Discord.                                                        *)
(***************************************************************************)
EXTENDS TwitchMonitor, StreamsChannel

TwitchInit == MonitorInit /\ ChannelInit /\ (limit.configured <=> bound.jobs = {})

TwitchNext ==
  \/ MonitorNext /\ UNCHANGED channelVars
  \/ ChannelNext /\ UNCHANGED monitorVars

TwitchSpec ==
  /\ TwitchInit /\ [][TwitchNext]_<<monitorVars, channelVars>>
  /\ MonitorFairness /\ ChannelFairness
=============================================================================
