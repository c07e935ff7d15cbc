-------------------------- MODULE MCChannelStats --------------------------
(* Instances of ChannelStats for TLC: days of two years, among them the two *)
(* at the ends of 2024 that fall in a first week, and messages of each kind. *)
EXTENDS ChannelStats

MCCalendar ==
    [d \in Days |->
        CASE d = "2024-01-01" -> [year |-> 2024, month |-> 1,  isoYear |-> 2024, isoWeek |-> 1]
          [] d = "2024-05-16" -> [year |-> 2024, month |-> 5,  isoYear |-> 2024, isoWeek |-> 20]
          [] d = "2024-05-17" -> [year |-> 2024, month |-> 5,  isoYear |-> 2024, isoWeek |-> 20]
          [] d = "2024-12-31" -> [year |-> 2024, month |-> 12, isoYear |-> 2025, isoWeek |-> 1]
          [] d = "2025-05-12" -> [year |-> 2025, month |-> 5,  isoYear |-> 2025, isoWeek |-> 20]]

Post(day, views) ==
    [day |-> day, views |-> views, replies |-> 0, forwards |-> 0, reactions |-> 0,
     media |-> "none", urls |-> 0]

MCMenu ==
    {Post(NoDay, 9), Post("2024-01-01", 2), Post("2024-05-16", 0), Post("2024-12-31", 3),
     Post("2025-05-12", 1),
     [Post("2024-05-16", 5) EXCEPT !.replies = 1, !.media = "photo", !.urls = 2],
     [Post("2024-05-17", 2) EXCEPT !.forwards = 3, !.reactions = 1, !.media = "video"]}
===========================================================================
