\* Core timing models and their barrier, branch predictors, queue models, trace and routine front ends.
SPECIFICATION Spec
INVARIANTS
  TypeOK
  
  
  OrderKept
  ResourcesNotShared
  
  
  
