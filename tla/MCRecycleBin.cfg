SPECIFICATION HalfSpec
CONSTANTS
  Category = {c1, c2, c3}
  Asset = {sword}
  Card = {k1}
  Name = {Unorganised, props, fromProps}
  Unorganised = Unorganised
  NoName = NoName
  Person = {u1}
  Still = Still
  MostDeletes = 2
  TiedCard = {c1, c2, c3}
  Milestone = {m1}
  FromProps = fromProps
  Kind = {"blocks"}
CONSTRAINT Explored
SYMMETRY BinSymmetry
INVARIANTS
  NothingIsInsideItself
  NothingDangles
  WhatItWasInCanComeFirst
  RestoringUndoesDeleting
  LinksGoBothWays
  NothingIsRefused
  TiesComeBack
CHECK_DEADLOCK FALSE
