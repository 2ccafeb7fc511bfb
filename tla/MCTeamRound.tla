---------------------------- MODULE MCTeamRound ----------------------------
(* One Ticket; the drivers, Agents and callers of one Team.                *)
EXTENDS TeamRound, TLC

============================================================================
