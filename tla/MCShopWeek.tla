----------------------------- MODULE MCShopWeek -----------------------------
(* Instances of ShopWeek small enough for TLC.                             *)
EXTENDS ShopWeek

\* Greenwich and the easternmost zone; New York.
EasternZones == {0, 840}
WesternZones == {-300}

At(day, hour, minute) == day * DayLength + hour * 60 + minute

\* Each edge of a window and of a week, from Monday to Thursday of the next.
EdgesOfTheWeek ==
  {At(0, 0, 10), At(3, 9, 59), At(3, 10, 0), At(4, 10, 0), At(5, 10, 0), At(6, 23, 45),
   At(7, 0, 10), At(10, 10, 0)}

\* A Sunday, the Monday after it and the next Sunday; a Monday later.
AroundTheWeek == {6, 7, 13, 14}
=============================================================================
